---- MODULE Spec2Model ----
(***************************************************************************)
(* Model of ogs6py/log_parser/log_parser.py: the line classifier           *)
(* (_tryMatch over the ordered regular expressions), the parse loop of     *)
(* parse_file with its accumulators and its TimeStep objects, and the      *)
(* generators that flatten a Simulation into rows.                         *)
(*                                                                         *)
(* Text.  A line is a sequence of symbols.  A symbol is either one         *)
(* character ("0", ".", "e", "s", ...; "U+00A0" for one beyond printable   *)
(* ASCII) or a chunk of literal text that the regular expressions only     *)
(* ever match as a whole ("info: [time] Assembly took ", " s", "[0] ").    *)
(* The lines of the files are written without their trailing newline: no   *)
(* group can capture it and float() strips it.                             *)
(*                                                                         *)
(* Values.  None is the empty tuple.  A float is the shortest decimal that *)
(* converts to it, the one repr() prints: the pair <<m, e>> that stands    *)
(* for m * 10^e with m not divisible by 10, <<0, 0>> for 0.0 and -0.0, and *)
(* <<"inf">>, <<"-inf">> and <<"nan">>.  Integers are those of the         *)
(* checker, below 2^31: a conversion whose value or whose m is beyond them *)
(* stops the evaluation with an overflow.  An optional integer limit N is  *)
(* <<N>>.                                                                  *)
(*                                                                         *)
(* Objects.  TimeStep objects live in heap; tss and ts hold references     *)
(* (indices into heap), because parse_file appends the object ts refers to *)
(* and may go on changing it afterwards.                                   *)
(***************************************************************************)
EXTENDS Integers, Sequences, FiniteSets, TLC

VARIABLES
    pc,                      \* "loop", "break", "eof", "raised"
    read,                    \* the lines of the file consumed so far
    maximum_timesteps,       \* parameter of parse_file
    maximum_lines,           \* parameter of parse_file
    petsc,                   \* parameter of parse_file
    heap,                    \* the TimeStep objects, by reference
    tss,                     \* list of references
    ts,                      \* reference to the active TimeStep
    assembly_time,
    dirichlet_bc_time,
    linear_solver_time,
    phase_field_parameter,
    component_convergence,
    execution_time,
    number_of_lines_read,
    result,                  \* the returned Simulation, None before the return
    rows                     \* list(result), None before the iteration

vars == <<pc, read, maximum_timesteps, maximum_lines, petsc, heap, tss, ts,
          assembly_time, dirichlet_bc_time, linear_solver_time,
          phase_field_parameter, component_convergence, execution_time,
          number_of_lines_read, result, rows>>

None == <<>>

(***************************************************************************)
(* Bounds.                                                                 *)
(***************************************************************************)
\* The longest file the parse reads.
MaxLines == 3
\* The trees the flattening is applied to: the most TimeSteps of a tree, the
\* most Iterations of all its TimeSteps together and the most
\* ComponentConvergence records of all its Iterations together.
MaxTimeSteps == 2
MaxIterations == 3
MaxLeaves == 4

(***************************************************************************)
(* Characters and conversions.  A character beyond printable ASCII is the  *)
(* symbol of its code point, "U+0661".  Python's \d matches the decimal    *)
(* digits of every script (Unicode category Nd); int() and float() read    *)
(* them as the ASCII digits of their values, and white space beyond ASCII  *)
(* as a blank, before anything else.                                       *)
(***************************************************************************)
AsciiDigits == <<"0", "1", "2", "3", "4", "5", "6", "7", "8", "9">>

\* The decimal digits, one row per script, a row in the order 0 to 9.
DigitRows ==
    <<AsciiDigits>> \o
    <<
       <<"U+0660", "U+0661", "U+0662", "U+0663", "U+0664",
         "U+0665", "U+0666", "U+0667", "U+0668", "U+0669">>,
       <<"U+06F0", "U+06F1", "U+06F2", "U+06F3", "U+06F4",
         "U+06F5", "U+06F6", "U+06F7", "U+06F8", "U+06F9">>,
       <<"U+07C0", "U+07C1", "U+07C2", "U+07C3", "U+07C4",
         "U+07C5", "U+07C6", "U+07C7", "U+07C8", "U+07C9">>,
       <<"U+0966", "U+0967", "U+0968", "U+0969", "U+096A",
         "U+096B", "U+096C", "U+096D", "U+096E", "U+096F">>,
       <<"U+09E6", "U+09E7", "U+09E8", "U+09E9", "U+09EA",
         "U+09EB", "U+09EC", "U+09ED", "U+09EE", "U+09EF">>,
       <<"U+0A66", "U+0A67", "U+0A68", "U+0A69", "U+0A6A",
         "U+0A6B", "U+0A6C", "U+0A6D", "U+0A6E", "U+0A6F">>,
       <<"U+0AE6", "U+0AE7", "U+0AE8", "U+0AE9", "U+0AEA",
         "U+0AEB", "U+0AEC", "U+0AED", "U+0AEE", "U+0AEF">>,
       <<"U+0B66", "U+0B67", "U+0B68", "U+0B69", "U+0B6A",
         "U+0B6B", "U+0B6C", "U+0B6D", "U+0B6E", "U+0B6F">>,
       <<"U+0BE6", "U+0BE7", "U+0BE8", "U+0BE9", "U+0BEA",
         "U+0BEB", "U+0BEC", "U+0BED", "U+0BEE", "U+0BEF">>,
       <<"U+0C66", "U+0C67", "U+0C68", "U+0C69", "U+0C6A",
         "U+0C6B", "U+0C6C", "U+0C6D", "U+0C6E", "U+0C6F">>,
       <<"U+0CE6", "U+0CE7", "U+0CE8", "U+0CE9", "U+0CEA",
         "U+0CEB", "U+0CEC", "U+0CED", "U+0CEE", "U+0CEF">>,
       <<"U+0D66", "U+0D67", "U+0D68", "U+0D69", "U+0D6A",
         "U+0D6B", "U+0D6C", "U+0D6D", "U+0D6E", "U+0D6F">>,
       <<"U+0DE6", "U+0DE7", "U+0DE8", "U+0DE9", "U+0DEA",
         "U+0DEB", "U+0DEC", "U+0DED", "U+0DEE", "U+0DEF">>,
       <<"U+0E50", "U+0E51", "U+0E52", "U+0E53", "U+0E54",
         "U+0E55", "U+0E56", "U+0E57", "U+0E58", "U+0E59">>,
       <<"U+0ED0", "U+0ED1", "U+0ED2", "U+0ED3", "U+0ED4",
         "U+0ED5", "U+0ED6", "U+0ED7", "U+0ED8", "U+0ED9">>,
       <<"U+0F20", "U+0F21", "U+0F22", "U+0F23", "U+0F24",
         "U+0F25", "U+0F26", "U+0F27", "U+0F28", "U+0F29">>,
       <<"U+1040", "U+1041", "U+1042", "U+1043", "U+1044",
         "U+1045", "U+1046", "U+1047", "U+1048", "U+1049">>,
       <<"U+1090", "U+1091", "U+1092", "U+1093", "U+1094",
         "U+1095", "U+1096", "U+1097", "U+1098", "U+1099">>,
       <<"U+17E0", "U+17E1", "U+17E2", "U+17E3", "U+17E4",
         "U+17E5", "U+17E6", "U+17E7", "U+17E8", "U+17E9">>,
       <<"U+1810", "U+1811", "U+1812", "U+1813", "U+1814",
         "U+1815", "U+1816", "U+1817", "U+1818", "U+1819">>,
       <<"U+1946", "U+1947", "U+1948", "U+1949", "U+194A",
         "U+194B", "U+194C", "U+194D", "U+194E", "U+194F">>,
       <<"U+19D0", "U+19D1", "U+19D2", "U+19D3", "U+19D4",
         "U+19D5", "U+19D6", "U+19D7", "U+19D8", "U+19D9">>,
       <<"U+1A80", "U+1A81", "U+1A82", "U+1A83", "U+1A84",
         "U+1A85", "U+1A86", "U+1A87", "U+1A88", "U+1A89">>,
       <<"U+1A90", "U+1A91", "U+1A92", "U+1A93", "U+1A94",
         "U+1A95", "U+1A96", "U+1A97", "U+1A98", "U+1A99">>,
       <<"U+1B50", "U+1B51", "U+1B52", "U+1B53", "U+1B54",
         "U+1B55", "U+1B56", "U+1B57", "U+1B58", "U+1B59">>,
       <<"U+1BB0", "U+1BB1", "U+1BB2", "U+1BB3", "U+1BB4",
         "U+1BB5", "U+1BB6", "U+1BB7", "U+1BB8", "U+1BB9">>,
       <<"U+1C40", "U+1C41", "U+1C42", "U+1C43", "U+1C44",
         "U+1C45", "U+1C46", "U+1C47", "U+1C48", "U+1C49">>,
       <<"U+1C50", "U+1C51", "U+1C52", "U+1C53", "U+1C54",
         "U+1C55", "U+1C56", "U+1C57", "U+1C58", "U+1C59">>,
       <<"U+A620", "U+A621", "U+A622", "U+A623", "U+A624",
         "U+A625", "U+A626", "U+A627", "U+A628", "U+A629">>,
       <<"U+A8D0", "U+A8D1", "U+A8D2", "U+A8D3", "U+A8D4",
         "U+A8D5", "U+A8D6", "U+A8D7", "U+A8D8", "U+A8D9">>,
       <<"U+A900", "U+A901", "U+A902", "U+A903", "U+A904",
         "U+A905", "U+A906", "U+A907", "U+A908", "U+A909">>,
       <<"U+A9D0", "U+A9D1", "U+A9D2", "U+A9D3", "U+A9D4",
         "U+A9D5", "U+A9D6", "U+A9D7", "U+A9D8", "U+A9D9">>,
       <<"U+A9F0", "U+A9F1", "U+A9F2", "U+A9F3", "U+A9F4",
         "U+A9F5", "U+A9F6", "U+A9F7", "U+A9F8", "U+A9F9">>,
       <<"U+AA50", "U+AA51", "U+AA52", "U+AA53", "U+AA54",
         "U+AA55", "U+AA56", "U+AA57", "U+AA58", "U+AA59">>,
       <<"U+ABF0", "U+ABF1", "U+ABF2", "U+ABF3", "U+ABF4",
         "U+ABF5", "U+ABF6", "U+ABF7", "U+ABF8", "U+ABF9">>,
       <<"U+FF10", "U+FF11", "U+FF12", "U+FF13", "U+FF14",
         "U+FF15", "U+FF16", "U+FF17", "U+FF18", "U+FF19">>,
       <<"U+104A0", "U+104A1", "U+104A2", "U+104A3", "U+104A4",
         "U+104A5", "U+104A6", "U+104A7", "U+104A8", "U+104A9">>,
       <<"U+10D30", "U+10D31", "U+10D32", "U+10D33", "U+10D34",
         "U+10D35", "U+10D36", "U+10D37", "U+10D38", "U+10D39">>,
       <<"U+11066", "U+11067", "U+11068", "U+11069", "U+1106A",
         "U+1106B", "U+1106C", "U+1106D", "U+1106E", "U+1106F">>,
       <<"U+110F0", "U+110F1", "U+110F2", "U+110F3", "U+110F4",
         "U+110F5", "U+110F6", "U+110F7", "U+110F8", "U+110F9">>,
       <<"U+11136", "U+11137", "U+11138", "U+11139", "U+1113A",
         "U+1113B", "U+1113C", "U+1113D", "U+1113E", "U+1113F">>,
       <<"U+111D0", "U+111D1", "U+111D2", "U+111D3", "U+111D4",
         "U+111D5", "U+111D6", "U+111D7", "U+111D8", "U+111D9">>,
       <<"U+112F0", "U+112F1", "U+112F2", "U+112F3", "U+112F4",
         "U+112F5", "U+112F6", "U+112F7", "U+112F8", "U+112F9">>,
       <<"U+11450", "U+11451", "U+11452", "U+11453", "U+11454",
         "U+11455", "U+11456", "U+11457", "U+11458", "U+11459">>,
       <<"U+114D0", "U+114D1", "U+114D2", "U+114D3", "U+114D4",
         "U+114D5", "U+114D6", "U+114D7", "U+114D8", "U+114D9">>,
       <<"U+11650", "U+11651", "U+11652", "U+11653", "U+11654",
         "U+11655", "U+11656", "U+11657", "U+11658", "U+11659">>,
       <<"U+116C0", "U+116C1", "U+116C2", "U+116C3", "U+116C4",
         "U+116C5", "U+116C6", "U+116C7", "U+116C8", "U+116C9">>,
       <<"U+11730", "U+11731", "U+11732", "U+11733", "U+11734",
         "U+11735", "U+11736", "U+11737", "U+11738", "U+11739">>,
       <<"U+118E0", "U+118E1", "U+118E2", "U+118E3", "U+118E4",
         "U+118E5", "U+118E6", "U+118E7", "U+118E8", "U+118E9">>,
       <<"U+11950", "U+11951", "U+11952", "U+11953", "U+11954",
         "U+11955", "U+11956", "U+11957", "U+11958", "U+11959">>,
       <<"U+11C50", "U+11C51", "U+11C52", "U+11C53", "U+11C54",
         "U+11C55", "U+11C56", "U+11C57", "U+11C58", "U+11C59">>,
       <<"U+11D50", "U+11D51", "U+11D52", "U+11D53", "U+11D54",
         "U+11D55", "U+11D56", "U+11D57", "U+11D58", "U+11D59">>,
       <<"U+11DA0", "U+11DA1", "U+11DA2", "U+11DA3", "U+11DA4",
         "U+11DA5", "U+11DA6", "U+11DA7", "U+11DA8", "U+11DA9">>,
       <<"U+16A60", "U+16A61", "U+16A62", "U+16A63", "U+16A64",
         "U+16A65", "U+16A66", "U+16A67", "U+16A68", "U+16A69">>,
       <<"U+16AC0", "U+16AC1", "U+16AC2", "U+16AC3", "U+16AC4",
         "U+16AC5", "U+16AC6", "U+16AC7", "U+16AC8", "U+16AC9">>,
       <<"U+16B50", "U+16B51", "U+16B52", "U+16B53", "U+16B54",
         "U+16B55", "U+16B56", "U+16B57", "U+16B58", "U+16B59">>,
       <<"U+1D7CE", "U+1D7CF", "U+1D7D0", "U+1D7D1", "U+1D7D2",
         "U+1D7D3", "U+1D7D4", "U+1D7D5", "U+1D7D6", "U+1D7D7">>,
       <<"U+1D7D8", "U+1D7D9", "U+1D7DA", "U+1D7DB", "U+1D7DC",
         "U+1D7DD", "U+1D7DE", "U+1D7DF", "U+1D7E0", "U+1D7E1">>,
       <<"U+1D7E2", "U+1D7E3", "U+1D7E4", "U+1D7E5", "U+1D7E6",
         "U+1D7E7", "U+1D7E8", "U+1D7E9", "U+1D7EA", "U+1D7EB">>,
       <<"U+1D7EC", "U+1D7ED", "U+1D7EE", "U+1D7EF", "U+1D7F0",
         "U+1D7F1", "U+1D7F2", "U+1D7F3", "U+1D7F4", "U+1D7F5">>,
       <<"U+1D7F6", "U+1D7F7", "U+1D7F8", "U+1D7F9", "U+1D7FA",
         "U+1D7FB", "U+1D7FC", "U+1D7FD", "U+1D7FE", "U+1D7FF">>,
       <<"U+1E140", "U+1E141", "U+1E142", "U+1E143", "U+1E144",
         "U+1E145", "U+1E146", "U+1E147", "U+1E148", "U+1E149">>,
       <<"U+1E2F0", "U+1E2F1", "U+1E2F2", "U+1E2F3", "U+1E2F4",
         "U+1E2F5", "U+1E2F6", "U+1E2F7", "U+1E2F8", "U+1E2F9">>,
       <<"U+1E950", "U+1E951", "U+1E952", "U+1E953", "U+1E954",
         "U+1E955", "U+1E956", "U+1E957", "U+1E958", "U+1E959">>,
       <<"U+1FBF0", "U+1FBF1", "U+1FBF2", "U+1FBF3", "U+1FBF4",
         "U+1FBF5", "U+1FBF6", "U+1FBF7", "U+1FBF8", "U+1FBF9">>
    >>

\* \d
DigitCh ==
    UNION { {DigitRows[r][i] : i \in 1..10} : r \in 1..Len(DigitRows) }

\* The characters of a class of the grammars besides the digits.
ClassCh(cls) ==
    DigitCh \cup (CASE cls = "\\d" -> {}
                    [] cls = "[\\d\\.e+s]" -> {".", "e", "+", "s"}
                    [] cls = "[\\d\\.e+-]" -> {".", "e", "+", "-"})

\* The white space that float() and int() strip from a str: the ASCII white
\* space of Py_ISSPACE and the white space beyond ASCII.  U+001C to U+001F
\* are white space for str.strip() only.
SpaceCh ==
    {" ", "\t", "\n", "\r", "\f", "U+000B", "U+0085", "U+00A0", "U+1680",
     "U+2000", "U+2001", "U+2002", "U+2003", "U+2004", "U+2005", "U+2006",
     "U+2007", "U+2008", "U+2009", "U+200A", "U+2028", "U+2029", "U+202F",
     "U+205F", "U+3000"}

\* The values a character has as a decimal digit: one or none.
DecimalOf(c) ==
    {d \in 0..9 : \E r \in 1..Len(DigitRows) : DigitRows[r][d + 1] = c}

\* A digit as the ASCII digit of its value ds, white space as a blank.
AsciiOf(c, ds) ==
    IF ds # {} THEN AsciiDigits[1 + CHOOSE d \in ds : TRUE]
    ELSE IF c \in SpaceCh THEN " "
    ELSE c

Ascii(s) == [i \in 1..Len(s) |-> AsciiOf(s[i], DecimalOf(s[i]))]

\* The value of an ASCII digit.
DigitVal(c) == CHOOSE d \in 0..9 : AsciiDigits[d + 1] = c

AsciiDigitCh == {AsciiDigits[i] : i \in 1..10}

\* The first position from p on, in p..Len(s) + 1, that does not hold a
\* symbol of cls.
StopFrom(s, p, cls) ==
    CHOOSE q \in p..(Len(s) + 1) :
        /\ q = Len(s) + 1 \/ s[q] \notin cls
        /\ \A j \in p..(q - 1) : s[j] \in cls

\* The length of the longest run of symbols of cls in s that starts at p.
RunLen(s, p, cls) == IF p > Len(s) THEN 0 ELSE StopFrom(s, p, cls) - p

\* The last position, in 0..Len(s), that does not hold a symbol of cls.
LastNot(s, cls) ==
    CHOOSE q \in 0..Len(s) :
        /\ q = 0 \/ s[q] \notin cls
        /\ \A j \in (q + 1)..Len(s) : s[j] \in cls

(***************************************************************************)
(* Natural numbers too long for a 32-bit integer of TLC: the sequence of   *)
(* their decimal digits (values 0 to 9), most significant digit first.     *)
(***************************************************************************)
RECURSIVE DigitsOf(_)
DigitsOf(n) == IF n < 10 THEN <<n>> ELSE Append(DigitsOf(n \div 10), n % 10)

RECURSIVE ValueOf(_)
ValueOf(a) ==
    IF a = <<>> THEN 0 ELSE 10 * ValueOf(SubSeq(a, 1, Len(a) - 1)) + a[Len(a)]

\* Without the zeros in front.
TrimLeft(a) == SubSeq(a, StopFrom(a, 1, {0}), Len(a))

\* Without the zeros at the end.
TrimRight(a) == SubSeq(a, 1, LastNot(a, {0}))

\* The values of a sequence of ASCII digits.
DigitVals(s) == [i \in 1..Len(s) |-> DigitVal(s[i])]

\* The number a sequence of ASCII digits writes.
DigitsValue(s) == ValueOf(TrimLeft(DigitVals(s)))

\* The text without the blanks around it.
Strip(s) == SubSeq(s, StopFrom(s, 1, {" "}), LastNot(s, {" "}))

\* An underscore may stand between two digits, and nowhere else.
GroupingOk(t) ==
    \A p \in 1..Len(t) :
        t[p] = "_" => /\ 1 < p
                      /\ p < Len(t)
                      /\ t[p - 1] \in AsciiDigitCh
                      /\ t[p + 1] \in AsciiDigitCh

IsNoUnderscore(c) == c # "_"

Ungrouped(t) == SelectSeq(t, IsNoUnderscore)

SignLen(t, p) == IF p <= Len(t) /\ t[p] \in {"+", "-"} THEN 1 ELSE 0

Negative(t, p) == p <= Len(t) /\ t[p] = "-"

\* sys.get_int_max_str_digits(): int() raises ValueError on more digits.
IntMaxStrDigits == 4300

\* The text t is an integer when n digits, one at least, and nothing else
\* follow the sign at p0.
IntDigits(t, p0, n) ==
    IF n >= 1 /\ p0 + n = Len(t) + 1 /\ n <= IntMaxStrDigits
    THEN [ok |-> TRUE,
          v  |-> (IF Negative(t, 1) THEN 0 - 1 ELSE 1)
                 * DigitsValue(SubSeq(t, p0, Len(t)))]
    ELSE [ok |-> FALSE, v |-> None]

\* The text t is stripped: it may have a sign and underscores.
IntText(t, p0) ==
    IF GroupingOk(t)
    THEN IntDigits(Ungrouped(t), p0, RunLen(Ungrouped(t), p0, AsciiDigitCh))
    ELSE [ok |-> FALSE, v |-> None]

\* int(s): [ok |-> converted, v |-> the value]; ValueError otherwise.
int(s) == IntText(Strip(Ascii(s)), 1 + SignLen(Strip(Ascii(s)), 1))

\* a >= b for two numbers without zeros in front.
BigGeq(a, b) ==
    \/ Len(a) > Len(b)
    \/ /\ Len(a) = Len(b)
       /\ ~\E i \in 1..Len(a) :
              /\ a[i] < b[i]
              /\ \A j \in 1..(i - 1) : a[j] = b[j]

\* f[lo] + ... + f[hi]
RECURSIVE SumRange(_, _, _)
SumRange(f, lo, hi) ==
    IF lo > hi THEN 0
    ELSE IF lo = hi THEN f[lo]
    ELSE SumRange(f, lo, (lo + hi) \div 2)
         + SumRange(f, (lo + hi) \div 2 + 1, hi)

Zeros(n) == [i \in 1..n |-> 0]

\* A sum in progress: the digits d, as many as there are columns, and the
\* carry c out of them.
IncAt(d, q) ==
    IF q = 0 THEN [c |-> 1, d |-> Zeros(Len(d))]
    ELSE [c |-> 0,
          d |-> [i \in 1..Len(d) |->
                    IF i < q THEN d[i] ELSE IF i = q THEN d[i] + 1 ELSE 0]]

\* d + 1
Inc(d) == IncAt(d, LastNot(d, {9}))

AppendDigit(r, x) == [c |-> r.c, d |-> Append(r.d, x)]

\* d + c for a small number c
RECURSIVE AddSmall(_, _)
AddSmall(d, c) ==
    IF c = 0 THEN [c |-> 0, d |-> d]
    ELSE IF d = <<>> THEN [c |-> c, d |-> <<>>]
    ELSE IF c = 1 THEN Inc(d)
    ELSE AppendDigit(AddSmall(SubSeq(d, 1, Len(d) - 1),
                              (d[Len(d)] + c) \div 10),
                     (d[Len(d)] + c) % 10)

Split(x) == [c |-> x \div 10, d |-> <<x % 10>>]

JoinSum(c, s, d) == [c |-> c + s.c, d |-> s.d \o d]

Join(l, r) == JoinSum(l.c, AddSmall(l.d, r.c), r.d)

\* The columns cols[lo..hi], each a small number, summed up with their
\* places: cols[hi] counts once, the column before it ten times, ...
RECURSIVE Carry(_, _, _)
Carry(cols, lo, hi) ==
    IF lo > hi THEN [c |-> 0, d |-> <<>>]
    ELSE IF lo = hi THEN Split(cols[lo])
    ELSE Join(Carry(cols, lo, (lo + hi) \div 2),
              Carry(cols, (lo + hi) \div 2 + 1, hi))

Digits(r) == TrimLeft(DigitsOf(r.c) \o r.d)

\* a * k for k below 2^27
BigMulSmall(a, k) == Digits(Carry([i \in 1..Len(a) |-> a[i] * k], 1, Len(a)))

Max(x, y) == IF x >= y THEN x ELSE y

Min(x, y) == IF x <= y THEN x ELSE y

\* a * b: column p of the long multiplication sums a[j] * b[p + 1 - j].
BigMul(a, b) ==
    Digits(Carry([p \in 1..(Len(a) + Len(b) - 1) |->
                     SumRange([j \in Max(1, p + 1 - Len(b))..Min(Len(a), p) |->
                                  a[j] * b[p + 1 - j]],
                              Max(1, p + 1 - Len(b)), Min(Len(a), p))],
                 1, Len(a) + Len(b) - 1))

\* acc * b^n for a small b, a factor b^chunk below 2^27 at a time; 0 is
\* the empty sequence.
RECURSIVE PowTimes(_, _, _, _)
PowTimes(acc, b, chunk, n) ==
    IF n = 0 \/ acc = <<>> THEN acc
    ELSE PowTimes(BigMulSmall(acc, b^Min(n, chunk)), b, chunk,
                  n - Min(n, chunk))

\* 2^n and 5^n
Pow(b, n) == PowTimes(<<1>>, b, IF b = 2 THEN 26 ELSE 11, n)

(***************************************************************************)
(* float() gives the double nearest to the decimal number it reads, ties   *)
(* to the even one, and repr() of a float is the shortest decimal that     *)
(* converts to it.  A float of the model is that decimal: <<m, e>> for     *)
(* m * 10^e with m not divisible by 10, <<0, 0>> for 0.0 and for -0.0,     *)
(* which equals it, and Inf, NegInf and NaN.                               *)
(*                                                                         *)
(* A double is k * 2^-s with 2^52 <= k < 2^53 and s >= -971, or with       *)
(* k < 2^52 and s = 1074; it is the record [inf |-> FALSE, k |-> the       *)
(* digits of k, s |-> s].  A decimal of the digits d is [d |-> d, e |-> e] *)
(* for d * 10^e.                                                           *)
(***************************************************************************)
Inf == <<"inf">>
NegInf == <<"-inf">>
NaN == <<"nan">>

Finite(k, s) == [inf |-> FALSE, k |-> k, s |-> s]

Infinite == [inf |-> TRUE, k |-> <<>>, s |-> 0]

\* m * 10^e with the trailing zeros of m moved into e.
RECURSIVE Normalise(_, _)
Normalise(m, e) ==
    IF m = 0 THEN <<0, 0>>
    ELSE IF m % 10 = 0 THEN Normalise(m \div 10, e + 1)
    ELSE <<m, e>>

\* 2^52 and 2^53
TwoTo52 == <<4, 5, 0, 3, 5, 9, 9, 6, 2, 7, 3, 7, 0, 4, 9, 6>>

TwoTo53 == <<9, 0, 0, 7, 1, 9, 9, 2, 5, 4, 7, 4, 0, 9, 9, 2>>

\* d * 10^e * 2^s, where 2^s = 5^-s * 10^s for a negative s.
Scaled(d, e, s) ==
    [d |-> BigMul(d, Pow(IF s >= 0 THEN 2 ELSE 5, IF s >= 0 THEN s ELSE 0 - s)),
     e |-> IF s >= 0 THEN e ELSE e + s]

\* The integer part of a decimal.
IntPart(x) ==
    IF x.e >= 0 THEN x.d \o Zeros(x.e) ELSE SubSeq(x.d, 1, Len(x.d) + x.e)

\* Whether the digits p, the first n of them before the point, round up
\* to the next integer: round half to even.
RoundsUp(p, n) ==
    /\ n >= 0
    /\ n < Len(p)
    /\ \/ p[n + 1] > 5
       \/ /\ p[n + 1] = 5
          /\ \/ \E j \in (n + 2)..Len(p) : p[j] # 0
             \/ (n > 0 /\ p[n] % 2 = 1)

\* The integer nearest to a decimal.
Rounded(x) ==
    IF x.e >= 0 THEN x.d \o Zeros(x.e)
    ELSE IF RoundsUp(x.d, Len(x.d) + x.e)
    THEN Digits(Inc(SubSeq(x.d, 1, Len(x.d) + x.e)))
    ELSE TrimLeft(SubSeq(x.d, 1, Len(x.d) + x.e))

\* A number not above the binary exponent of a decimal between 10^E and
\* 10^(E + 1), and at most 5 below it: log2(10) = 3.321928...
BinaryExponentBelow(E) == (E * 3321928) \div 1000000 - 1

\* k * 2^-s with k = 2^53 is 2^52 * 2^-(s - 1); from 2^1024 on it is
\* infinity.
Canonical(k, s) ==
    IF (IF k = TwoTo53 THEN s - 1 ELSE s) < 0 - 971 THEN Infinite
    ELSE IF k = TwoTo53 THEN Finite(TwoTo52, s - 1)
    ELSE Finite(k, s)

\* z is the decimal times 2^up, between 2^52 and 2^58.  With b the binary
\* exponent of z, the double is z / 2^(b - 52) rounded, times 2^-s for
\* s = up - (b - 52), but s is 1074 at most.
NearestTo(z, up, b) ==
    Canonical(Rounded(Scaled(z.d, z.e, Min(up - (b - 52), 1074) - up)),
              Min(up - (b - 52), 1074))

NearestScaled(z, up) ==
    NearestTo(z, up,
              52 + Cardinality({t \in 1..6 :
                                   BigGeq(IntPart(z),
                                          BigMulSmall(TwoTo52, 2^t))}))

\* The double nearest to d * 10^e, d without zeros at its ends.  Beyond
\* 10^310 it is infinity and below 10^-330 it is 0.
NearestTrimmed(d, e) ==
    IF e + Len(d) - 1 > 310 THEN Infinite
    ELSE IF e + Len(d) - 1 < 0 - 330 THEN Finite(<<>>, 1074)
    ELSE NearestScaled(Scaled(d, e, 52 - BinaryExponentBelow(e + Len(d) - 1)),
                       52 - BinaryExponentBelow(e + Len(d) - 1))

\* The double nearest to d * 10^e, d without zeros in front.
Nearest(d, e) ==
    NearestTrimmed(TrimRight(d), e + Len(d) - Len(TrimRight(d)))

\* The first p digits of the decimal v, and the exponent of the last one.
Below(v, p) == SubSeq(v.d, 1, p)

Above(v, p) == Digits(Inc(SubSeq(v.d, 1, p)))

ExponentAt(v, p) == v.e + Len(v.d) - p

Decimal(d, e) == Normalise(ValueOf(d), e)

\* The two decimals of p digits around the decimal v, the one nearer to v
\* first.
Around(v, p) ==
    IF v.d[p + 1] < 5 THEN <<Below(v, p), Above(v, p)>>
    ELSE <<Above(v, p), Below(v, p)>>

\* Which of the two convert to the double x.
Converting(x, v, p) ==
    {i \in 1..2 : Nearest(Around(v, p)[i], ExponentAt(v, p)) = x}

\* The shortest decimal that converts to the double x, whose value is the
\* decimal v, looked for among the decimals of p digits and more.
RECURSIVE ShortestFrom(_, _, _)
ShortestAt(x, v, p, good) ==
    IF good = {} THEN ShortestFrom(x, v, p + 1)
    ELSE Decimal(Around(v, p)[IF 1 \in good THEN 1 ELSE 2], ExponentAt(v, p))

ShortestFrom(x, v, p) ==
    IF p >= Len(v.d) THEN Decimal(v.d, v.e)
    ELSE ShortestAt(x, v, p, Converting(x, v, p))

Signed(neg, v) == IF neg THEN <<0 - v[1], v[2]>> ELSE v

\* repr() of the double x with the sign neg.
FloatOf(neg, x) ==
    IF x.inf THEN (IF neg THEN NegInf ELSE Inf)
    ELSE IF x.k = <<>> THEN <<0, 0>>
    ELSE Signed(neg, ShortestFrom(x, Scaled(x.k, 0, 0 - x.s), 1))

\* The float of the decimal d * 10^e, d without zeros in front.
Double(neg, d, e) ==
    IF d = <<>> THEN <<0, 0>> ELSE FloatOf(neg, Nearest(d, e))

(***************************************************************************)
(* float(s): the text without the white space around it and without the    *)
(* underscores between its digits is                                       *)
(*   [sign] (digits [. [digits]] | . digits) [(e | E) [sign] digits]       *)
(* or, in any case of the letters, [sign] (inf | infinity | nan); anything *)
(* else raises ValueError.  The answer is [ok |-> converted, v |-> the     *)
(* value].  The text is scanned from left to right, one operator per part  *)
(* of the number.                                                          *)
(***************************************************************************)
\* Py_TOLOWER of the letters that matter.
Lower(c) ==
    CASE c = "I" -> "i" [] c = "N" -> "n" [] c = "F" -> "f"
      [] c = "T" -> "t" [] c = "Y" -> "y" [] c = "A" -> "a"
      [] OTHER -> c

Lowered(t) == [i \in 1..Len(t) |-> Lower(t[i])]

\* The values of the digits of the mantissa idig.fdig without the zeros
\* in front, and the exponent of the last of them that is not 0.
MantissaAll(idig, fdig) == TrimLeft(DigitVals(idig \o fdig))

MantissaValue(neg, digits, ex) ==
    Double(neg, TrimRight(digits), ex + Len(digits) - Len(TrimRight(digits)))

\* The text is read to the end at pend with the digits idig.fdig and the
\* exponent ex: it is a number when there is a digit and nothing is left.
FloatValue(t, idig, fdig, x) ==
    IF x.ok /\ Len(idig) + Len(fdig) >= 1 /\ x.pend = Len(t) + 1
    THEN [ok |-> TRUE,
          v  |-> MantissaValue(Negative(t, 1), MantissaAll(idig, fdig),
                               x.ex - Len(fdig))]
    ELSE [ok |-> FALSE, v |-> None]

\* The exponent its digits write; one of more than nine digits is as good
\* as 10^9, as every number with it overflows or underflows.
ExponentValue(digits) ==
    IF Len(digits) > 9 THEN 10^9 ELSE ValueOf(digits)

\* The n digits of the exponent start at p4: the exponent ex and the end
\* pend of the text read.
FloatExponentDigits(t, eneg, p4, n) ==
    [ok   |-> n >= 1,
     ex   |-> (IF eneg THEN 0 - 1 ELSE 1)
              * ExponentValue(TrimLeft(DigitVals(SubSeq(t, p4, p4 + n - 1)))),
     pend |-> p4 + n]

FloatExponentSign(t, p4) ==
    FloatExponentDigits(t, Negative(t, p4), p4 + SignLen(t, p4),
                        RunLen(t, p4 + SignLen(t, p4), AsciiDigitCh))

\* The mantissa ends before p3; an exponent follows a mantissa with digits.
FloatExponent(t, digits, p3) ==
    IF p3 <= Len(t) /\ t[p3] \in {"e", "E"} /\ digits
    THEN FloatExponentSign(t, p3 + 1)
    ELSE [ok |-> TRUE, ex |-> 0, pend |-> p3]

FloatMantissa(t, idig, fdig, p3) ==
    FloatValue(t, idig, fdig,
               FloatExponent(t, Len(idig) + Len(fdig) >= 1, p3))

\* The integer digits idig end before p1; n digits follow the point.
FloatFractionDigits(t, idig, p1, point, n) ==
    FloatMantissa(t, idig,
                  IF point THEN SubSeq(t, p1 + 1, p1 + n) ELSE <<>>,
                  IF point THEN p1 + 1 + n ELSE p1)

FloatFraction(t, idig, p1) ==
    FloatFractionDigits(t, idig, p1, p1 <= Len(t) /\ t[p1] = ".",
                        RunLen(t, p1 + 1, AsciiDigitCh))

\* n integer digits start at p0, after the sign.
FloatIntegerDigits(t, p0, n) ==
    FloatFraction(t, SubSeq(t, p0, p0 + n - 1), p0 + n)

FloatInteger(t, p0) == FloatIntegerDigits(t, p0, RunLen(t, p0, AsciiDigitCh))

\* What follows the sign at p0 is inf, infinity, nan or a number.
FloatWord(t, p0, word) ==
    IF word \in {<<"i", "n", "f">>,
                 <<"i", "n", "f", "i", "n", "i", "t", "y">>}
    THEN [ok |-> TRUE, v |-> IF Negative(t, 1) THEN NegInf ELSE Inf]
    ELSE IF word = <<"n", "a", "n">>
    THEN [ok |-> TRUE, v |-> NaN]
    ELSE FloatInteger(t, p0)

\* The text t is stripped: it may have a sign and underscores.
FloatUngrouped(t, p0) == FloatWord(t, p0, Lowered(SubSeq(t, p0, Len(t))))

FloatText(t) ==
    IF GroupingOk(t)
    THEN FloatUngrouped(Ungrouped(t), 1 + SignLen(t, 1))
    ELSE [ok |-> FALSE, v |-> None]

float(s) == FloatText(Strip(Ascii(s)))

(***************************************************************************)
(* Regular expressions: a sequence of elements, each a literal chunk, a    *)
(* group of one or more symbols of a class, the group "any text" (dot     *)
(* star, which stops at a newline) or the anchor $.  A class group is      *)
(* always followed by a literal whose first character is outside the       *)
(* class, and the any-text group is the last element, so the greedy match  *)
(* never has to give symbols back.                                         *)
(***************************************************************************)
Lit(s) == [k |-> "lit", s |-> s, c |-> ""]
Grp(cls) == [k |-> "grp", s |-> "", c |-> cls]
AnyGrp == [k |-> "any", s |-> "", c |-> ""]
Eol == [k |-> "eol", s |-> "", c |-> ""]

\* The first newline of the line from p on, or its end.
NewlineFrom(line, p) ==
    CHOOSE q \in p..(Len(line) + 1) :
        /\ q = Len(line) + 1 \/ line[q] = "\n"
        /\ \A j \in p..(q - 1) : line[j] # "\n"

\* The count of symbols the group el takes from p on, as many as it can.
GroupLen(line, p, el) ==
    IF el.k = "grp" THEN RunLen(line, p, ClassCh(el.c))
    ELSE IF el.k = "any" THEN NewlineFrom(line, p) - p
    ELSE 0

\* regex.match(line) from symbol p of the line and element i of the regex:
\* [ok |-> matched, groups |-> match.groups()].
RECURSIVE MatchFrom(_, _, _, _, _)
MatchElement(line, p, re, i, groups, el, n) ==
    CASE el.k = "lit" ->
           IF p <= Len(line) /\ line[p] = el.s
           THEN MatchFrom(line, p + 1, re, i + 1, groups)
           ELSE [ok |-> FALSE, groups |-> <<>>]
      [] el.k = "grp" ->
           IF n >= 1
           THEN MatchFrom(line, p + n, re, i + 1,
                          Append(groups, SubSeq(line, p, p + n - 1)))
           ELSE [ok |-> FALSE, groups |-> <<>>]
      [] el.k = "any" ->
           MatchFrom(line, p + n, re, i + 1,
                     Append(groups, SubSeq(line, p, p + n - 1)))
      [] el.k = "eol" ->
           IF p = Len(line) + 1 \/ (p = Len(line) /\ line[p] = "\n")
           THEN MatchFrom(line, p, re, i + 1, groups)
           ELSE [ok |-> FALSE, groups |-> <<>>]

MatchFrom(line, p, re, i, groups) ==
    IF i > Len(re) THEN [ok |-> TRUE, groups |-> groups]
    ELSE MatchElement(line, p, re, i, groups, re[i], GroupLen(line, p, re[i]))

re_match(re, line) == MatchFrom(line, 1, re, 1, <<>>)

re_iteration ==
    [re |-> <<Lit("info: [time] Iteration #"), Grp("\\d"), Lit(" took "),
              Grp("[\\d\\.e+s]"), Lit(" s")>>,
     ctors |-> <<"int", "float">>]

re_time_step_start ==
    [re |-> <<Lit("info: === Time stepping at step #"), Grp("\\d"),
              Lit(" and time "), Grp("[\\d\\.e+s]"), Lit(" with step size "),
              AnyGrp>>,
     ctors |-> <<"int", "float", "float">>]

re_time_step_output ==
    [re |-> <<Lit("info: [time] Output of timestep "), Grp("\\d"),
              Lit(" took "), Grp("[\\d\\.e+s]"), Lit(" s")>>,
     ctors |-> <<"int", "float">>]

re_time_step_solution_time ==
    [re |-> <<Lit("info: [time] Solving process #"), Grp("\\d"),
              Lit(" took "), Grp("[\\d\\.e+s]"), Lit(" s in time step #"),
              Grp("\\d")>>,
     ctors |-> <<"int", "float", "int">>]

re_time_step_finished ==
    [re |-> <<Lit("info: [time] Time step #"), Grp("\\d"), Lit(" took "),
              Grp("[\\d\\.e+s]"), Lit(" s")>>,
     ctors |-> <<"int", "float">>]

re_assembly_time ==
    [re |-> <<Lit("info: [time] Assembly took "), Grp("[\\d\\.e+s]"), Lit(" s")>>,
     ctors |-> <<"float">>]

re_dirichlet_bc_time ==
    [re |-> <<Lit("info: [time] Applying Dirichlet BCs took "),
              Grp("[\\d\\.e+s]"), Lit(" s")>>,
     ctors |-> <<"float">>]

re_linear_solver_time ==
    [re |-> <<Lit("info: [time] Linear solver took "), Grp("[\\d\\.e+s]"),
              Lit(" s")>>,
     ctors |-> <<"float">>]

re_phase_field_parameter ==
    [re |-> <<Lit("info: The min of d is "), Grp("[\\d\\.e+s]")>>,
     ctors |-> <<"float">>]

re_execution_time ==
    [re |-> <<Lit("info: [time] Execution took "), Grp("[\\d\\.e+s]"), Lit(" s")>>,
     ctors |-> <<"float">>]

re_component_convergence ==
    [re |-> <<Lit("info: Convergence criterion, component "), Grp("\\d"),
              Lit(": |dx|="), Grp("[\\d\\.e+-]"), Lit(", |x|="),
              Grp("[\\d\\.e+-]"), Lit(", |dx|/|x|="), Grp("[\\d\\.e+-]"),
              Eol>>,
     ctors |-> <<"int", "float", "float", "float">>]

re_convergence ==
    [re |-> <<Lit("info: Convergence criterion: |dx|="), Grp("[\\d\\.e+-]"),
              Lit(", |x|="), Grp("[\\d\\.e+-]"), Lit(", |dx|/|x|="),
              Grp("[\\d\\.e+-]"), Eol>>,
     ctors |-> <<"float", "float", "float">>]

\* ctor(s) for one captured text: [ok, v].
Convert(ctor, s) ==
    IF ctor = "int" THEN int(s) ELSE float(s)

(***************************************************************************)
(* _tryMatch(line, regex, *ctors): [matched, raised, r].  matched is       *)
(* FALSE for the answer None; raised is TRUE when a constructor raises     *)
(* ValueError; r is the list of converted fields otherwise.                *)
(***************************************************************************)
Converted(conv) ==
    IF \E j \in 1..Len(conv) : ~conv[j].ok
    THEN [matched |-> TRUE, raised |-> TRUE, r |-> <<>>]
    ELSE [matched |-> TRUE, raised |-> FALSE,
          r |-> [j \in 1..Len(conv) |-> conv[j].v]]

Matched(rx, m) ==
    IF ~m.ok THEN [matched |-> FALSE, raised |-> FALSE, r |-> <<>>]
    ELSE Converted([j \in 1..Len(rx.ctors) |->
                       Convert(rx.ctors[j], m.groups[j])])

tryMatch(line, rx) == Matched(rx, re_match(rx.re, line))

(***************************************************************************)
(* The grammars in the order parse_file tries them.                        *)
(***************************************************************************)
Registry ==
    << [kind |-> "iteration",             rx |-> re_iteration],
       [kind |-> "assembly_time",         rx |-> re_assembly_time],
       [kind |-> "dirichlet_bc_time",     rx |-> re_dirichlet_bc_time],
       [kind |-> "linear_solver_time",    rx |-> re_linear_solver_time],
       [kind |-> "phase_field_parameter", rx |-> re_phase_field_parameter],
       [kind |-> "component_convergence", rx |-> re_component_convergence],
       [kind |-> "convergence",           rx |-> re_convergence],
       [kind |-> "time_step_start",       rx |-> re_time_step_start],
       [kind |-> "solution_time",         rx |-> re_time_step_solution_time],
       [kind |-> "time_step_output",      rx |-> re_time_step_output],
       [kind |-> "time_step_finished",    rx |-> re_time_step_finished],
       [kind |-> "execution_time",        rx |-> re_execution_time] >>

\* The chain of "if r := _tryMatch(...)" from grammar i on: the first grammar
\* that matches decides, also when its conversion raises.
RECURSIVE ClassifyFrom(_, _)
ClassifyMatch(line, i, kind, m) ==
    IF m.matched
    THEN [kind |-> kind, raised |-> m.raised, r |-> m.r]
    ELSE ClassifyFrom(line, i + 1)

ClassifyWith(line, i, entry) ==
    ClassifyMatch(line, i, entry.kind, tryMatch(line, entry.rx))

ClassifyFrom(line, i) ==
    IF i > Len(Registry)
    THEN [kind |-> "unrecognized", raised |-> FALSE, r |-> <<>>]
    ELSE ClassifyWith(line, i, Registry[i])

Classify(line) == ClassifyFrom(line, 1)

\* line.replace('[0] ', ''): every occurrence goes, not only a leading one.
RECURSIVE StripRank(_)
StripRank(line) ==
    IF line = <<>> THEN <<>>
    ELSE IF line[1] = "[0] " THEN StripRank(Tail(line))
    ELSE <<line[1]>> \o StripRank(Tail(line))

\* line_new of the loop body.
LineNew(line, flag) == IF flag = TRUE THEN StripRank(line) ELSE line

(***************************************************************************)
(* The lines a file is made of.                                            *)
(***************************************************************************)
L_iteration ==
    <<"info: [time] Iteration #", "1", " took ", "0", ".", "0", "5", " s">>
L_assembly ==
    <<"info: [time] Assembly took ", "0", ".", "2", " s">>
\* A second assembly duration, to tell the last one from the first.
L_assembly_2 ==
    <<"info: [time] Assembly took ", "0", ".", "2", "5", " s">>
L_dirichlet ==
    <<"info: [time] Applying Dirichlet BCs took ", "0", ".", "3", " s">>
L_linear_solver ==
    <<"info: [time] Linear solver took ", "0", ".", "4", " s">>
L_phase_field ==
    <<"info: The min of d is ", "0", ".", "9">>
L_component_convergence ==
    <<"info: Convergence criterion, component ", "1", ": |dx|=", "1", "e", "-",
      "5", ", |x|=", "2", ", |dx|/|x|=", "5", "e", "-", "6">>
L_convergence ==
    <<"info: Convergence criterion: |dx|=", "1", ", |x|=", "4",
      ", |dx|/|x|=", "0", ".", "2", "5">>
L_time_step_1 ==
    <<"info: === Time stepping at step #", "1", " and time ", "0", ".", "1",
      " with step size ", "0", ".", "0", "1">>
L_time_step_2 ==
    <<"info: === Time stepping at step #", "2", " and time ", "0", ".", "1",
      "1", " with step size ", "0", ".", "0", "1">>
L_solution_time ==
    <<"info: [time] Solving process #", "0", " took ", "0", ".", "6",
      " s in time step #", "1">>
L_output ==
    <<"info: [time] Output of timestep ", "1", " took ", "0", ".", "7", " s">>
L_finished ==
    <<"info: [time] Time step #", "1", " took ", "0", ".", "8", " s">>
L_execution ==
    <<"info: [time] Execution took ", "1", ".", "5", " s">>
L_other ==
    <<"info: Solving process #0 started.">>
\* A line of rank 0 of a parallel run.
L_rank_iteration ==
    <<"[0] ", "info: [time] Iteration #", "2", " took ", "0", ".", "0", "6",
      " s">>
\* A duration of the admitted characters that is no number: "0.2s".
L_bad_assembly ==
    <<"info: [time] Assembly took ", "0", ".", "2", "s", " s">>

Lines ==
    {L_iteration, L_assembly, L_assembly_2, L_dirichlet, L_linear_solver,
     L_phase_field, L_component_convergence, L_convergence, L_time_step_1, L_time_step_2,
     L_solution_time, L_output, L_finished, L_execution, L_other,
     L_rank_iteration, L_bad_assembly}

\* The same lines as rank 0 of a parallel run writes them: each behind the
\* rank marker.
RankLines == { <<"[0] ">> \o l : l \in Lines }

\* The values of the parameters of parse_file.
TimestepLimits == {None, <<0 - 1>>, <<1>>}
LineLimits == {None, <<1>>}

\* What the chain of grammars makes of each line, with and without petsc.
Classified ==
    [flag \in BOOLEAN |->
        [l \in Lines \cup RankLines |-> Classify(LineNew(l, flag))]]

(***************************************************************************)
(* The dataclasses.                                                        *)
(***************************************************************************)
ComponentConvergence(number, dx, x, dx_relative) ==
    [number |-> number, dx |-> dx, x |-> x, dx_relative |-> dx_relative,
     index_name |-> "component_convergence/"]

Iteration(number, a, d, l, cc, cpu_time, pf) ==
    [number |-> number, assembly_time |-> a, dirichlet_bc_time |-> d,
     linear_solver_time |-> l, cpu_time |-> cpu_time,
     phase_field_parameter |-> pf, component_convergence |-> cc,
     index_name |-> "iteration/"]

\* solution_time is no field of the dataclass: parse_file sets it as a plain
\* attribute, and None stands for "never set".
TimeStep(number, t, dt) ==
    [number |-> number, t |-> t, dt |-> dt, iterations |-> <<>>,
     cpu_time |-> None, output_time |-> None, solution_time |-> None,
     index_name |-> "time_step/"]

Simulation(timesteps, mesh_read_time, exec_time) ==
    [timesteps |-> timesteps, mesh_read_time |-> mesh_read_time,
     execution_time |-> exec_time]

(***************************************************************************)
(* parse_file.                                                             *)
(***************************************************************************)
Init ==
    /\ pc = "loop"
    /\ read = <<>>
    /\ maximum_timesteps \in TimestepLimits
    /\ maximum_lines \in LineLimits
    /\ petsc \in BOOLEAN
    /\ heap = << TimeStep(0, <<0, 0>>, None) >>
    /\ tss = <<>>
    /\ ts = 1
    /\ assembly_time = None
    /\ dirichlet_bc_time = None
    /\ linear_solver_time = None
    /\ phase_field_parameter = None
    /\ component_convergence = <<>>
    /\ execution_time = None
    /\ number_of_lines_read = 0
    /\ result = None
    /\ rows = None

\* "for line in open(filename)" hands over the next line and the loop body
\* counts it; the first grammar that matches it is kind.
ReadLine(line, kind) ==
    /\ pc = "loop"
    /\ Len(read) < MaxLines
    /\ Classified[petsc][line].kind = kind
    /\ ~Classified[petsc][line].raised
    /\ read' = Append(read, line)
    /\ number_of_lines_read' = number_of_lines_read + 1

Fields(line) == Classified[petsc][line].r

\* A reset that forgets the assembly duration.
ResetAccumulators_KeepAssembly ==
    /\ assembly_time' = assembly_time
    /\ dirichlet_bc_time' = None
    /\ linear_solver_time' = None
    /\ phase_field_parameter' = None
    /\ component_convergence' = <<>>

\* A reset that leaves the pending convergence list as it is.
ResetAccumulators_KeepConvergence ==
    /\ assembly_time' = None
    /\ dirichlet_bc_time' = None
    /\ linear_solver_time' = None
    /\ phase_field_parameter' = None
    /\ component_convergence' = component_convergence

\* The accumulators after "Reset parsed quantities".
ResetAccumulators ==
    /\ assembly_time' = None
    /\ dirichlet_bc_time' = None
    /\ linear_solver_time' = None
    /\ phase_field_parameter' = None
    /\ component_convergence' = <<>>

IterationLine(line) ==
    /\ ReadLine(line, "iteration")
    /\ LET r == Fields(line) IN
       heap' = [heap EXCEPT ![ts].iterations =
                   Append(@, Iteration(r[1], assembly_time, dirichlet_bc_time,
                                       linear_solver_time,
                                       component_convergence, r[2],
                                       phase_field_parameter))]
    /\ ResetAccumulators
    /\ UNCHANGED <<maximum_timesteps, maximum_lines, petsc, tss, ts,
                   execution_time, pc, result, rows>>

\* A handler that keeps the first assembly duration of an Iteration.
AssemblyLine_FirstWins(line) ==
    /\ ReadLine(line, "assembly_time")
    /\ assembly_time' =
          IF assembly_time = None THEN Fields(line)[1] ELSE assembly_time
    /\ UNCHANGED <<maximum_timesteps, maximum_lines, petsc, heap, tss, ts,
                   dirichlet_bc_time, linear_solver_time,
                   phase_field_parameter, component_convergence,
                   execution_time, pc, result, rows>>

AssemblyLine(line) ==
    /\ ReadLine(line, "assembly_time")
    /\ assembly_time' = Fields(line)[1]
    /\ UNCHANGED <<maximum_timesteps, maximum_lines, petsc, heap, tss, ts,
                   dirichlet_bc_time, linear_solver_time,
                   phase_field_parameter, component_convergence,
                   execution_time, pc, result, rows>>

DirichletLine(line) ==
    /\ ReadLine(line, "dirichlet_bc_time")
    /\ dirichlet_bc_time' = Fields(line)[1]
    /\ UNCHANGED <<maximum_timesteps, maximum_lines, petsc, heap, tss, ts,
                   assembly_time, linear_solver_time, phase_field_parameter,
                   component_convergence, execution_time, pc, result, rows>>

LinearSolverLine(line) ==
    /\ ReadLine(line, "linear_solver_time")
    /\ linear_solver_time' = Fields(line)[1]
    /\ UNCHANGED <<maximum_timesteps, maximum_lines, petsc, heap, tss, ts,
                   assembly_time, dirichlet_bc_time, phase_field_parameter,
                   component_convergence, execution_time, pc, result, rows>>

PhaseFieldLine(line) ==
    /\ ReadLine(line, "phase_field_parameter")
    /\ phase_field_parameter' = Fields(line)[1]
    /\ UNCHANGED <<maximum_timesteps, maximum_lines, petsc, heap, tss, ts,
                   assembly_time, dirichlet_bc_time, linear_solver_time,
                   component_convergence, execution_time, pc, result, rows>>

ComponentConvergenceLine(line) ==
    /\ ReadLine(line, "component_convergence")
    /\ LET r == Fields(line) IN
       component_convergence' =
           Append(component_convergence,
                  ComponentConvergence(r[1], r[2], r[3], r[4]))
    /\ UNCHANGED <<maximum_timesteps, maximum_lines, petsc, heap, tss, ts,
                   assembly_time, dirichlet_bc_time, linear_solver_time,
                   phase_field_parameter, execution_time, pc, result, rows>>

ConvergenceLine(line) ==
    /\ ReadLine(line, "convergence")
    /\ LET r == Fields(line) IN
       component_convergence' =
           Append(component_convergence,
                  ComponentConvergence(0, r[1], r[2], r[3]))
    /\ UNCHANGED <<maximum_timesteps, maximum_lines, petsc, heap, tss, ts,
                   assembly_time, dirichlet_bc_time, linear_solver_time,
                   phase_field_parameter, execution_time, pc, result, rows>>

\* A condition that never looks at the line count.
LimitExceeded_IgnoreLines(number, lines_read) ==
    /\ maximum_timesteps # None
    /\ number > maximum_timesteps[1]

\* A condition that already stops at the line limit itself.
LimitExceeded_AtLimit(number, lines_read) ==
    \/ /\ maximum_timesteps # None
       /\ number > maximum_timesteps[1]
    \/ /\ maximum_lines # None
       /\ lines_read >= maximum_lines[1]

\* The condition of the "break": a TimeStep object is always true.
LimitExceeded(number, lines_read) ==
    \/ /\ TRUE
       /\ maximum_timesteps # None
       /\ number > maximum_timesteps[1]
    \/ /\ maximum_lines # None
       /\ lines_read > maximum_lines[1]

\* An insert at the head of the list instead.
AppendTimeStep_AtHead(list, ref) == <<ref>> \o list

\* tss.append(ts): the list holds a reference to the object.
AppendTimeStep(list, ref) == Append(list, ref)

\* A time-step-start line that also resets what is pending.
TimeStepStartLine_ResetsPending(line) ==
    /\ ReadLine(line, "time_step_start")
    /\ LET r == Fields(line) IN
       /\ tss' = AppendTimeStep(tss, ts)
       /\ heap' = Append(heap, TimeStep(r[1], r[2], r[3]))
       /\ ts' = Len(heap) + 1
       /\ IF LimitExceeded(r[1], number_of_lines_read')
          THEN /\ pc' = "break"
               /\ result' = << Simulation(tss', None, execution_time) >>
          ELSE UNCHANGED <<pc, result>>
    /\ ResetAccumulators
    /\ UNCHANGED <<maximum_timesteps, maximum_lines, petsc, execution_time,
                   rows>>

\* The "break" leads straight to the return.
TimeStepStartLine(line) ==
    /\ ReadLine(line, "time_step_start")
    /\ LET r == Fields(line) IN
       /\ tss' = AppendTimeStep(tss, ts)
       /\ heap' = Append(heap, TimeStep(r[1], r[2], r[3]))
       /\ ts' = Len(heap) + 1
       /\ IF LimitExceeded(r[1], number_of_lines_read')
          THEN /\ pc' = "break"
               /\ result' = << Simulation(tss', None, execution_time) >>
          ELSE UNCHANGED <<pc, result>>
    /\ UNCHANGED <<maximum_timesteps, maximum_lines, petsc, assembly_time,
                   dirichlet_bc_time, linear_solver_time,
                   phase_field_parameter, component_convergence,
                   execution_time, rows>>

SolutionTimeLine(line) ==
    /\ ReadLine(line, "solution_time")
    /\ heap' = [heap EXCEPT ![ts].solution_time = Fields(line)[2]]
    /\ UNCHANGED <<maximum_timesteps, maximum_lines, petsc, tss, ts,
                   assembly_time, dirichlet_bc_time, linear_solver_time,
                   phase_field_parameter, component_convergence,
                   execution_time, pc, result, rows>>

\* A handler that stores the output duration as the cpu_time.
OutputLine_SetsCpuTime(line) ==
    /\ ReadLine(line, "time_step_output")
    /\ heap' = [heap EXCEPT ![ts].cpu_time = Fields(line)[2]]
    /\ UNCHANGED <<maximum_timesteps, maximum_lines, petsc, tss, ts,
                   assembly_time, dirichlet_bc_time, linear_solver_time,
                   phase_field_parameter, component_convergence,
                   execution_time, pc, result, rows>>

OutputLine(line) ==
    /\ ReadLine(line, "time_step_output")
    /\ heap' = [heap EXCEPT ![ts].output_time = Fields(line)[2]]
    /\ UNCHANGED <<maximum_timesteps, maximum_lines, petsc, tss, ts,
                   assembly_time, dirichlet_bc_time, linear_solver_time,
                   phase_field_parameter, component_convergence,
                   execution_time, pc, result, rows>>

FinishedLine(line) ==
    /\ ReadLine(line, "time_step_finished")
    /\ heap' = [heap EXCEPT ![ts].cpu_time = Fields(line)[2]]
    /\ UNCHANGED <<maximum_timesteps, maximum_lines, petsc, tss, ts,
                   assembly_time, dirichlet_bc_time, linear_solver_time,
                   phase_field_parameter, component_convergence,
                   execution_time, pc, result, rows>>

\* An execution-duration line that records the duration and finalizes
\* nothing.
ExecutionLine_NoAppend(line) ==
    /\ ReadLine(line, "execution_time")
    /\ execution_time' = Fields(line)[1]
    /\ UNCHANGED <<maximum_timesteps, maximum_lines, petsc, heap, tss, ts,
                   assembly_time, dirichlet_bc_time, linear_solver_time,
                   phase_field_parameter, component_convergence, pc, result,
                   rows>>

ExecutionLine(line) ==
    /\ ReadLine(line, "execution_time")
    /\ execution_time' = Fields(line)[1]
    /\ tss' = AppendTimeStep(tss, ts)
    /\ UNCHANGED <<maximum_timesteps, maximum_lines, petsc, heap, ts,
                   assembly_time, dirichlet_bc_time, linear_solver_time,
                   phase_field_parameter, component_convergence, pc, result,
                   rows>>

\* A line without a grammar that makes the parser forget what is pending.
OtherLine_ClearsPending(line) ==
    /\ ReadLine(line, "unrecognized")
    /\ ResetAccumulators
    /\ UNCHANGED <<maximum_timesteps, maximum_lines, petsc, heap, tss, ts,
                   execution_time, pc, result, rows>>

\* No grammar matches: the loop body falls through to the next line.
OtherLine(line) ==
    /\ ReadLine(line, "unrecognized")
    /\ UNCHANGED <<maximum_timesteps, maximum_lines, petsc, heap, tss, ts,
                   assembly_time, dirichlet_bc_time, linear_solver_time,
                   phase_field_parameter, component_convergence,
                   execution_time, pc, result, rows>>

\* A parser that swallows the ValueError and goes on with the next line.
ConversionError_Skipped(line) ==
    /\ pc = "loop"
    /\ Len(read) < MaxLines
    /\ Classified[petsc][line].raised
    /\ read' = Append(read, line)
    /\ number_of_lines_read' = number_of_lines_read + 1
    /\ UNCHANGED <<maximum_timesteps, maximum_lines, petsc, heap, tss, ts,
                   assembly_time, dirichlet_bc_time, linear_solver_time,
                   phase_field_parameter, component_convergence,
                   execution_time, pc, result, rows>>

\* A constructor raises ValueError inside _tryMatch: parse_file has no
\* handler, so the exception leaves it and nothing is returned.
ConversionError(line) ==
    /\ pc = "loop"
    /\ Len(read) < MaxLines
    /\ Classified[petsc][line].raised
    /\ read' = Append(read, line)
    /\ number_of_lines_read' = number_of_lines_read + 1
    /\ pc' = "raised"
    /\ UNCHANGED <<maximum_timesteps, maximum_lines, petsc, heap, tss, ts,
                   assembly_time, dirichlet_bc_time, linear_solver_time,
                   phase_field_parameter, component_convergence,
                   execution_time, result, rows>>

\* An end of input that finalizes the active TimeStep before the return.
EndOfFile_FinalizesActive ==
    /\ pc = "loop"
    /\ pc' = "eof"
    /\ tss' = Append(tss, ts)
    /\ result' = << Simulation(tss', None, execution_time) >>
    /\ UNCHANGED <<read, maximum_timesteps, maximum_lines, petsc, heap, ts,
                   assembly_time, dirichlet_bc_time, linear_solver_time,
                   phase_field_parameter, component_convergence,
                   execution_time, number_of_lines_read, rows>>

\* The file has no further line: the loop ends and parse_file returns.
EndOfFile ==
    /\ pc = "loop"
    /\ pc' = "eof"
    /\ result' = << Simulation(tss, None, execution_time) >>
    /\ UNCHANGED <<read, maximum_timesteps, maximum_lines, petsc, heap, tss,
                   ts, assembly_time, dirichlet_bc_time, linear_solver_time,
                   phase_field_parameter, component_convergence,
                   execution_time, number_of_lines_read, rows>>

(***************************************************************************)
(* The generators that flatten a Simulation.  A row is a function from     *)
(* column names to values; a generator is the sequence of what it yields.  *)
(***************************************************************************)
\* a | b of two dicts: the entries of b win.
DictUnion(a, b) == b @@ a

\* [base | d for d in ds]
UnionEach(base, ds) == [j \in 1..Len(ds) |-> DictUnion(base, ds[j])]

ComponentConvergence_to_dict(c, prefix) ==
    << (prefix \o c.index_name \o "number" :> c.number)
       @@ (prefix \o c.index_name \o "dx" :> c.dx)
       @@ (prefix \o c.index_name \o "x" :> c.x)
       @@ (prefix \o c.index_name \o "dx_relative" :> c.dx_relative) >>

\* The columns of an Iteration without its own index_name in their names.
Iteration_dict_NoIndexName(i, prefix) ==
    (prefix \o "number" :> i.number)
    @@ (prefix \o "assembly_time" :> i.assembly_time)
    @@ (prefix \o "dirichlet_bc_time" :> i.dirichlet_bc_time)
    @@ (prefix \o "linear_solver_time" :> i.linear_solver_time)
    @@ (prefix \o "cpu_time" :> i.cpu_time)
    @@ (prefix \o "phase_field_parameter" :> i.phase_field_parameter)

Iteration_dict(i, prefix) ==
    (prefix \o i.index_name \o "number" :> i.number)
    @@ (prefix \o i.index_name \o "assembly_time" :> i.assembly_time)
    @@ (prefix \o i.index_name \o "dirichlet_bc_time" :> i.dirichlet_bc_time)
    @@ (prefix \o i.index_name \o "linear_solver_time" :> i.linear_solver_time)
    @@ (prefix \o i.index_name \o "cpu_time" :> i.cpu_time)
    @@ (prefix \o i.index_name \o "phase_field_parameter" :>
            i.phase_field_parameter)

\* Iteration.to_dict from the k-th convergence record on.
RECURSIVE Iteration_to_dict_from(_, _, _)
Iteration_to_dict_from(i, prefix, k) ==
    IF k > Len(i.component_convergence) THEN <<>>
    ELSE UnionEach(Iteration_dict(i, prefix),
                   ComponentConvergence_to_dict(i.component_convergence[k],
                                                prefix \o i.index_name))
         \o Iteration_to_dict_from(i, prefix, k + 1)

\* An Iteration without records that still yields its own columns.
Iteration_to_dict_RowWhenEmpty(i, prefix) ==
    IF Len(i.component_convergence) = 0
    THEN << Iteration_dict(i, prefix) >>
    ELSE Iteration_to_dict_from(i, prefix, 1)

Iteration_to_dict(i, prefix) == Iteration_to_dict_from(i, prefix, 1)

TimeStep_dict(t) ==
    (t.index_name \o "number" :> t.number)
    @@ (t.index_name \o "t" :> t.t)
    @@ (t.index_name \o "dt" :> t.dt)
    @@ (t.index_name \o "cpu_time" :> t.cpu_time)
    @@ (t.index_name \o "output_time" :> t.output_time)

\* TimeStep.to_dict from the k-th iteration on (its prefix is not used).
RECURSIVE TimeStep_to_dict_from(_, _, _)
TimeStep_to_dict_from(t, prefix, k) ==
    IF k > Len(t.iterations) THEN <<>>
    ELSE UnionEach(TimeStep_dict(t),
                   Iteration_to_dict(t.iterations[k], t.index_name))
         \o TimeStep_to_dict_from(t, prefix, k + 1)

TimeStep_to_dict(t, prefix) == TimeStep_to_dict_from(t, prefix, 1)

Simulation_dict(sim) == ("execution_time" :> sim.execution_time)

\* Simulation.__iter__ from the k-th time step on; objs holds the objects
\* the references in sim.timesteps point to.
RECURSIVE Simulation_iter_from(_, _, _)
Simulation_iter_from(sim, objs, k) ==
    IF k > Len(sim.timesteps) THEN <<>>
    ELSE UnionEach(Simulation_dict(sim),
                   TimeStep_to_dict(objs[sim.timesteps[k]], ""))
         \o Simulation_iter_from(sim, objs, k + 1)

Simulation_iter(sim, objs) == Simulation_iter_from(sim, objs, 1)

\* pd.DataFrame(data) runs the iteration to its end.
Iterate ==
    /\ pc \in {"break", "eof"}
    /\ rows = None
    /\ rows' = << Simulation_iter(result[1], heap) >>
    /\ UNCHANGED <<pc, read, maximum_timesteps, maximum_lines, petsc, heap,
                   tss, ts, assembly_time, dirichlet_bc_time,
                   linear_solver_time, phase_field_parameter,
                   component_convergence, execution_time,
                   number_of_lines_read, result>>

Next ==
    \/ \E line \in Lines :
          \/ IterationLine(line)
          \/ AssemblyLine(line)
          \/ DirichletLine(line)
          \/ LinearSolverLine(line)
          \/ PhaseFieldLine(line)
          \/ ComponentConvergenceLine(line)
          \/ ConvergenceLine(line)
          \/ TimeStepStartLine(line)
          \/ SolutionTimeLine(line)
          \/ OutputLine(line)
          \/ FinishedLine(line)
          \/ ExecutionLine(line)
          \/ OtherLine(line)
          \/ ConversionError(line)
    \/ EndOfFile
    \/ Iterate

Spec == Init /\ [][Next]_vars

(***************************************************************************)
(* parse_file with petsc=True on the log of a parallel run: every line of  *)
(* the file starts with the rank marker.                                   *)
(***************************************************************************)
RankInit == Init /\ petsc = TRUE

RankNext ==
    \/ \E line \in RankLines :
          \/ IterationLine(line)
          \/ AssemblyLine(line)
          \/ DirichletLine(line)
          \/ LinearSolverLine(line)
          \/ PhaseFieldLine(line)
          \/ ComponentConvergenceLine(line)
          \/ ConvergenceLine(line)
          \/ TimeStepStartLine(line)
          \/ SolutionTimeLine(line)
          \/ OutputLine(line)
          \/ FinishedLine(line)
          \/ ExecutionLine(line)
          \/ OtherLine(line)
          \/ ConversionError(line)
    \/ EndOfFile
    \/ Iterate

RankSpec == RankInit /\ [][RankNext]_vars

(***************************************************************************)
(* Simulation.__iter__ on trees of every shape.  A shape gives the number  *)
(* of Iterations of each TimeStep (its) and the number of records of each  *)
(* Iteration, the Iterations counted through the tree (leaves); every      *)
(* field gets a value that tells where in the tree it sits.  full says     *)
(* whether the optional fields are set, twice whether the last TimeStep is *)
(* in the sequence two times, as after an execution-duration line that a   *)
(* time-step-start line follows.                                           *)
(***************************************************************************)
\* The sequences of n naturals whose sum is at most total.
RECURSIVE SeqsUpTo(_, _)
SeqsUpTo(n, total) ==
    IF n = 0 THEN {<<>>}
    ELSE UNION {{<<a>> \o s : s \in SeqsUpTo(n - 1, total - a)} : a \in 0..total}

RECURSIVE Sum(_)
Sum(s) == IF s = <<>> THEN 0 ELSE s[1] + Sum(Tail(s))

TreeShapes ==
    UNION {{[its |-> c, leaves |-> l] : l \in SeqsUpTo(Sum(c), MaxLeaves)} :
           c \in UNION {SeqsUpTo(n, MaxIterations) : n \in 0..MaxTimeSteps}}

TreeLeaf(k, j, l) ==
    ComponentConvergence(l, <<100 * k + 10 * j + l, 0 - 3>>,
                         <<100 * k + 10 * j + l, 0 - 1>>,
                         <<100 * k + 10 * j + l, 0 - 2>>)

TreeIteration(k, j, n, full) ==
    Iteration(j,
              IF full THEN <<10 * k + j, 0 - 1>> ELSE None,
              IF full THEN <<10 * k + j, 0 - 2>> ELSE None,
              IF full THEN <<10 * k + j, 0 - 3>> ELSE None,
              [l \in 1..n |-> TreeLeaf(k, j, l)],
              <<10 * k + j, 0 - 4>>,
              IF full THEN <<10 * k + j, 0 - 5>> ELSE None)

TreeTimeStep(k, shape, full) ==
    [TimeStep(k, <<k, 0 - 1>>, <<1, 0 - 2>>) EXCEPT
        !.iterations =
            [j \in 1..shape.its[k] |->
                TreeIteration(k, j,
                              shape.leaves[Sum(SubSeq(shape.its, 1, k - 1)) + j],
                              full)],
        !.cpu_time = IF full THEN <<k, 0>> ELSE None,
        !.output_time = IF full THEN <<k, 1>> ELSE None]

FlattenInit ==
    \E shape \in TreeShapes, full \in BOOLEAN, twice \in BOOLEAN :
       /\ heap = [k \in 1..Len(shape.its) |-> TreeTimeStep(k, shape, full)]
       /\ tss = IF twice /\ Len(shape.its) > 0
                THEN [k \in 1..Len(shape.its) + 1 |->
                          IF k <= Len(shape.its) THEN k ELSE Len(shape.its)]
                ELSE [k \in 1..Len(shape.its) |-> k]
       /\ ts = Len(shape.its)
       /\ execution_time = IF full THEN <<15, 0 - 1>> ELSE None
       /\ result = << Simulation(tss, None, execution_time) >>
       /\ pc = "eof"
       /\ read = <<>>
       /\ maximum_timesteps = None
       /\ maximum_lines = None
       /\ petsc = FALSE
       /\ assembly_time = None
       /\ dirichlet_bc_time = None
       /\ linear_solver_time = None
       /\ phase_field_parameter = None
       /\ component_convergence = <<>>
       /\ number_of_lines_read = 0
       /\ rows = None

FlattenNext == Iterate

FlattenSpec == FlattenInit /\ [][FlattenNext]_vars

(***************************************************************************)
(* What the properties speak of.                                           *)
(***************************************************************************)
\* parse_file has returned.
Returned == pc \in {"break", "eof"}

\* The TimeStep objects of the returned Simulation, in sequence order.
ReturnedTimeSteps ==
    [k \in 1..Len(result[1].timesteps) |-> heap[result[1].timesteps[k]]]

\* The grammar that matched a line of the file.
Kind(line) == Classified[petsc][line].kind

\* Line p of the file went through its handler (the line on which a
\* conversion raised did not).
Handled(p) == ~(pc = "raised" /\ p = Len(read))

\* The positions p with lo < p < hi, in order, of the handled lines of the
\* given kinds.
RECURSIVE PositionsIn(_, _, _)
PositionsIn(lo, hi, kinds) ==
    IF lo + 1 >= hi THEN <<>>
    ELSE (IF Kind(read[lo + 1]) \in kinds /\ Handled(lo + 1)
          THEN <<lo + 1>> ELSE <<>>)
         \o PositionsIn(lo + 1, hi, kinds)

IterationPositions == PositionsIn(0, Len(read) + 1, {"iteration"})

StartPositions == PositionsIn(0, Len(read) + 1, {"time_step_start"})

\* The Iterations of the objects k.. of the heap.  The active TimeStep is
\* always the newest object, so this is the order of their creation.
RECURSIVE IterationsFrom(_)
IterationsFrom(k) ==
    IF k > Len(heap) THEN <<>> ELSE heap[k].iterations \o IterationsFrom(k + 1)

AllIterations == IterationsFrom(1)

\* The step indices of the time-step-start lines read, in the order of the
\* lines.
StartIndices ==
    [n \in 1..Len(StartPositions) |->
        Classified[petsc][read[StartPositions[n]]].r[1]]

NonDecreasing(s) ==
    \A a, b \in 1..Len(s) : a < b => s[a] <= s[b]

(***************************************************************************)
(* C1.  A file of one time-step-start line (index 1, time 0.1, step size   *)
(* 0.01) and one iteration-timing line (index 1, 0.05 s), parsed without   *)
(* limits, gives a Simulation of exactly one TimeStep, number 1, that      *)
(* holds exactly one Iteration, number 1, cpu_time 0.05, its other scalars *)
(* None.                                                                   *)
(***************************************************************************)
C1_OneStepOneIteration ==
    (/\ pc = "eof"
     /\ read = <<L_time_step_1, L_iteration>>
     /\ petsc = FALSE
     /\ maximum_timesteps = None
     /\ maximum_lines = None)
    => /\ Len(ReturnedTimeSteps) = 1
       /\ ReturnedTimeSteps[1].number = 1
       /\ Len(ReturnedTimeSteps[1].iterations) = 1
       /\ ReturnedTimeSteps[1].iterations[1].number = 1
       /\ ReturnedTimeSteps[1].iterations[1].cpu_time = <<5, 0 - 2>>
       /\ ReturnedTimeSteps[1].iterations[1].assembly_time = None
       /\ ReturnedTimeSteps[1].iterations[1].dirichlet_bc_time = None
       /\ ReturnedTimeSteps[1].iterations[1].linear_solver_time = None
       /\ ReturnedTimeSteps[1].iterations[1].phase_field_parameter = None

(***************************************************************************)
(* C2.  The placeholder TimeStep made before any line is read (object 1,   *)
(* number 0, dt None) is never in the timestep sequence of the returned    *)
(* Simulation.                                                             *)
(***************************************************************************)
C2_PlaceholderDiscarded ==
    Returned =>
        \A k \in 1..Len(result[1].timesteps) : result[1].timesteps[k] # 1

(***************************************************************************)
(* C3, as claimed.  Whatever the lines, the numbers of the TimeSteps of    *)
(* the returned Simulation are non-decreasing in sequence order.           *)
(***************************************************************************)
C3_NumbersNonDecreasing ==
    Returned =>
        NonDecreasing([k \in 1..Len(ReturnedTimeSteps) |->
                          ReturnedTimeSteps[k].number])

(***************************************************************************)
(* C3, amended.  When the time-step-start lines of the file carry          *)
(* non-decreasing step indices, the numbers of the TimeSteps of the        *)
(* returned Simulation are non-decreasing in sequence order.               *)
(***************************************************************************)
C3_NonDecreasingForOrderedInput ==
    (Returned /\ NonDecreasing(StartIndices)) =>
        NonDecreasing([k \in 1..Len(ReturnedTimeSteps) |->
                          ReturnedTimeSteps[k].number])

\* Two time steps with rising indices were started and both are returned.
C3_Witness ==
    /\ Returned
    /\ NonDecreasing(StartIndices)
    /\ Len(StartIndices) >= 2
    /\ Len(ReturnedTimeSteps) = 3
    /\ ReturnedTimeSteps[2].number = 1
    /\ ReturnedTimeSteps[3].number = 2

(***************************************************************************)
(* C4.  Right after an iteration-timing line the four scalar accumulators  *)
(* are None; and of two Iterations finalized one after the other, the      *)
(* second has None for every scalar kind of which no line lies between the *)
(* two iteration-timing lines.                                             *)
(***************************************************************************)
ScalarKinds ==
    {"assembly_time", "dirichlet_bc_time", "linear_solver_time",
     "phase_field_parameter"}

ScalarOf(i, kind) ==
    CASE kind = "assembly_time" -> i.assembly_time
      [] kind = "dirichlet_bc_time" -> i.dirichlet_bc_time
      [] kind = "linear_solver_time" -> i.linear_solver_time
      [] kind = "phase_field_parameter" -> i.phase_field_parameter

C4_AccumulatorsReset ==
    /\ (/\ read # <<>>
        /\ Kind(read[Len(read)]) = "iteration"
        /\ Handled(Len(read)))
       => /\ assembly_time = None
          /\ dirichlet_bc_time = None
          /\ linear_solver_time = None
          /\ phase_field_parameter = None
    /\ Len(AllIterations) = Len(IterationPositions)
    /\ \A n \in 2..Len(IterationPositions) : \A kind \in ScalarKinds :
          PositionsIn(IterationPositions[n - 1], IterationPositions[n],
                      {kind}) = <<>>
          => ScalarOf(AllIterations[n], kind) = None

\* An assembly line came before the first of two Iterations only: the first
\* carries its value, the second None.
C4_Witness ==
    /\ Len(AllIterations) = 2
    /\ AllIterations[1].assembly_time # None
    /\ AllIterations[2].assembly_time = None
    /\ assembly_time = None

(***************************************************************************)
(* C5.  The record of a convergence line is in exactly one Iteration, the  *)
(* first one finalized after the line, and the records of an Iteration     *)
(* stand in the order of their lines: the n-th Iteration holds exactly the *)
(* records of the convergence lines between the (n-1)-th and the n-th      *)
(* iteration-timing line, whatever lines follow, and the pending list      *)
(* holds those after the last iteration-timing line.                       *)
(***************************************************************************)
ConvergenceKinds == {"component_convergence", "convergence"}

\* The record a convergence line stands for.
RecordOf(line) ==
    IF Kind(line) = "component_convergence"
    THEN ComponentConvergence(Classified[petsc][line].r[1],
                              Classified[petsc][line].r[2],
                              Classified[petsc][line].r[3],
                              Classified[petsc][line].r[4])
    ELSE ComponentConvergence(0,
                              Classified[petsc][line].r[1],
                              Classified[petsc][line].r[2],
                              Classified[petsc][line].r[3])

\* The records of the convergence lines strictly between lo and hi.
RecordsBetween(lo, hi) ==
    [m \in 1..Len(PositionsIn(lo, hi, ConvergenceKinds)) |->
        RecordOf(read[PositionsIn(lo, hi, ConvergenceKinds)[m]])]

C5_ConvergenceToNextIteration ==
    /\ Len(AllIterations) = Len(IterationPositions)
    /\ \A n \in 1..Len(IterationPositions) :
          AllIterations[n].component_convergence =
              RecordsBetween(IF n = 1 THEN 0 ELSE IterationPositions[n - 1],
                             IterationPositions[n])
    /\ component_convergence =
          RecordsBetween(IF IterationPositions = <<>> THEN 0
                         ELSE IterationPositions[Len(IterationPositions)],
                         Len(read) + 1)

\* A convergence line, then two iteration-timing lines: the record is in the
\* first Iteration and not in the second.
C5_Witness ==
    /\ Len(AllIterations) = 2
    /\ Len(AllIterations[1].component_convergence) = 1
    /\ AllIterations[2].component_convergence = <<>>
    /\ component_convergence = <<>>

(***************************************************************************)
(* C6.  With the limit maximum_timesteps = N, no TimeStep of the returned  *)
(* Simulation has a number above N.                                        *)
(***************************************************************************)
C6_NoTimeStepAboveLimit ==
    (Returned /\ maximum_timesteps # None) =>
        \A k \in 1..Len(ReturnedTimeSteps) :
            ReturnedTimeSteps[k].number <= maximum_timesteps[1]

(***************************************************************************)
(* C7.  With the limit maximum_lines = M, every TimeStep of the returned   *)
(* Simulation that a time-step-start line created, the last one among      *)
(* them, was created by a line at a position of at most M in the file      *)
(* (object k + 1 is created by the k-th time-step-start line).             *)
(***************************************************************************)
C7_StartWithinLineLimit ==
    (Returned /\ maximum_lines # None) =>
        \A k \in 1..Len(result[1].timesteps) :
            result[1].timesteps[k] > 1 =>
                StartPositions[result[1].timesteps[k] - 1] <= maximum_lines[1]

\* A line limit is set and the last TimeStep returned is one that a line
\* created.
C7_Witness ==
    /\ Returned
    /\ maximum_lines # None
    /\ Len(result[1].timesteps) >= 2
    /\ result[1].timesteps[Len(result[1].timesteps)] > 1

(***************************************************************************)
(* C8.  Reading a line stops the parse early exactly when the line is a    *)
(* time-step-start line whose step index exceeds maximum_timesteps or      *)
(* whose position exceeds maximum_lines; the Simulation returned then      *)
(* holds the TimeSteps finalized before plus the one that was active, and  *)
(* not the one just created; and after the stop no line is read.           *)
(***************************************************************************)
C8_Step ==
    /\ pc = "break" => (read' = read /\ heap' = heap /\ result' = result)
    /\ read' # read =>
          /\ (pc' = "break") <=>
                /\ Classified[petsc][read'[Len(read')]].kind = "time_step_start"
                /\ ~Classified[petsc][read'[Len(read')]].raised
                /\ \/ /\ maximum_timesteps # None
                      /\ Classified[petsc][read'[Len(read')]].r[1]
                            > maximum_timesteps[1]
                   \/ /\ maximum_lines # None
                      /\ Len(read') > maximum_lines[1]
          /\ pc' \in {"loop", "break", "raised"}
          /\ pc' = "break" =>
                /\ result'[1].timesteps = Append(tss, ts)
                /\ ts' # ts
                /\ \A k \in 1..Len(result'[1].timesteps) :
                      result'[1].timesteps[k] # ts'

C8_StopsOnlyAtTimeStepStart == [][C8_Step]_vars

\* The second line lies beyond the line limit and is no time-step-start
\* line: the parse went on and stopped at the third line.
C8_Witness ==
    /\ pc = "break"
    /\ maximum_lines # None
    /\ Len(read) = 3
    /\ maximum_lines[1] < 2
    /\ Kind(read[2]) # "time_step_start"

(***************************************************************************)
(* The records of a returned tree by their place: <<k, j, l>> is the l-th  *)
(* record of the j-th Iteration of the k-th TimeStep of the sequence.      *)
(***************************************************************************)
LeafPaths ==
    UNION {UNION {{<<k, j, l>> :
                     l \in 1..Len(ReturnedTimeSteps[k].iterations[j]
                                      .component_convergence)} :
                  j \in 1..Len(ReturnedTimeSteps[k].iterations)} :
           k \in 1..Len(ReturnedTimeSteps)}

PathBefore(p, q) ==
    \/ p[1] < q[1]
    \/ p[1] = q[1] /\ p[2] < q[2]
    \/ p[1] = q[1] /\ p[2] = q[2] /\ p[3] < q[3]

\* The place of a record in the depth-first order.
Rank(p) == 1 + Cardinality({q \in LeafPaths : PathBefore(q, p)})

(***************************************************************************)
(* C9.  Iterating a Simulation yields exactly as many rows as its          *)
(* Iterations hold ComponentConvergence records in all: an Iteration       *)
(* without records and a TimeStep without Iterations add none.             *)
(***************************************************************************)
C9_OneRowPerRecord ==
    rows # None => Len(rows[1]) = Cardinality(LeafPaths)

\* A tree with a TimeStep without Iterations and an Iteration without
\* records whose scalars are set, next to Iterations with records.
C9_Witness ==
    /\ rows # None
    /\ Len(rows[1]) >= 2
    /\ \E k \in 1..Len(ReturnedTimeSteps) :
          ReturnedTimeSteps[k].iterations = <<>>
    /\ \E k \in 1..Len(ReturnedTimeSteps) :
          \E j \in 1..Len(ReturnedTimeSteps[k].iterations) :
             /\ ReturnedTimeSteps[k].iterations[j].component_convergence = <<>>
             /\ ReturnedTimeSteps[k].iterations[j].assembly_time # None

(***************************************************************************)
(* C10.  The rows come in depth-first order, and the row of a record       *)
(* carries the execution_time of the Simulation, the number, t and dt (and *)
(* cpu_time, output_time) of the TimeStep the record is in, the scalars of *)
(* the Iteration it is in, and the record's own fields.                    *)
(***************************************************************************)
RowColumns ==
    {"execution_time",
     "time_step/number", "time_step/t", "time_step/dt", "time_step/cpu_time",
     "time_step/output_time",
     "time_step/iteration/number", "time_step/iteration/assembly_time",
     "time_step/iteration/dirichlet_bc_time",
     "time_step/iteration/linear_solver_time",
     "time_step/iteration/cpu_time",
     "time_step/iteration/phase_field_parameter",
     "time_step/iteration/component_convergence/number",
     "time_step/iteration/component_convergence/dx",
     "time_step/iteration/component_convergence/x",
     "time_step/iteration/component_convergence/dx_relative"}

RowIsOf(row, sim, t, i, c) ==
    /\ DOMAIN row = RowColumns
    /\ row["execution_time"] = sim.execution_time
    /\ row["time_step/number"] = t.number
    /\ row["time_step/t"] = t.t
    /\ row["time_step/dt"] = t.dt
    /\ row["time_step/cpu_time"] = t.cpu_time
    /\ row["time_step/output_time"] = t.output_time
    /\ row["time_step/iteration/number"] = i.number
    /\ row["time_step/iteration/assembly_time"] = i.assembly_time
    /\ row["time_step/iteration/dirichlet_bc_time"] = i.dirichlet_bc_time
    /\ row["time_step/iteration/linear_solver_time"] = i.linear_solver_time
    /\ row["time_step/iteration/cpu_time"] = i.cpu_time
    /\ row["time_step/iteration/phase_field_parameter"]
          = i.phase_field_parameter
    /\ row["time_step/iteration/component_convergence/number"] = c.number
    /\ row["time_step/iteration/component_convergence/dx"] = c.dx
    /\ row["time_step/iteration/component_convergence/x"] = c.x
    /\ row["time_step/iteration/component_convergence/dx_relative"]
          = c.dx_relative

C10_RowsDepthFirst ==
    rows # None =>
        \A p \in LeafPaths :
            /\ Rank(p) <= Len(rows[1])
            /\ RowIsOf(rows[1][Rank(p)], result[1], ReturnedTimeSteps[p[1]],
                       ReturnedTimeSteps[p[1]].iterations[p[2]],
                       ReturnedTimeSteps[p[1]].iterations[p[2]]
                           .component_convergence[p[3]])

\* Two TimeSteps with records, one of them with two Iterations with records,
\* one Iteration with two records.
C10_Witness ==
    /\ rows # None
    /\ Len(rows[1]) = 4
    /\ <<1, 1, 2>> \in LeafPaths
    /\ <<1, 2, 1>> \in LeafPaths
    /\ <<2, 1, 1>> \in LeafPaths
    /\ result[1].timesteps[1] # result[1].timesteps[2]

(***************************************************************************)
(* C11.  With petsc enabled, a line made of the rank marker and a text X   *)
(* is classified, and so handled, as the text X alone is with petsc        *)
(* disabled, also when X itself holds the rank marker: for every line read *)
(* the grammar chosen, the error raised and the fields converted are those *)
(* of the rest of the line taken as it stands.                             *)
(***************************************************************************)
C11_RankMarkerStrippedOnce ==
    petsc = TRUE =>
        \A p \in 1..Len(read) :
            read[p][1] = "[0] " =>
                Classified[TRUE][read[p]] = Classify(LineNew(Tail(read[p]), FALSE))

\* The positions of the lines read that some grammar matches.
RecognizedPositions ==
    PositionsIn(0, Len(read) + 1,
                {Registry[i].kind : i \in 1..Len(Registry)})

\* The line just read matches no grammar.
UnrecognizedStep ==
    /\ read' # read
    /\ Kind(read'[Len(read')]) = "unrecognized"

(***************************************************************************)
(* C12, as claimed.  A line that no grammar matches changes nothing that   *)
(* can influence the returned Simulation: the step that reads it leaves    *)
(* the TimeStep sequence, the active TimeStep, the accumulators, the       *)
(* pending list and the count of lines alone, and a time-step-start line   *)
(* stops the parse by the line limit only if it would also do so with the  *)
(* unrecognized lines taken out of the file, that is, only if the          *)
(* recognized lines up to it are more than maximum_lines.                  *)
(***************************************************************************)
C12_StepAsClaimed ==
    UnrecognizedStep =>
        UNCHANGED <<maximum_timesteps, maximum_lines, petsc, heap, tss, ts,
                    assembly_time, dirichlet_bc_time, linear_solver_time,
                    phase_field_parameter, component_convergence,
                    execution_time, number_of_lines_read, pc, result, rows>>

C12_SameTermination ==
    (/\ pc = "break"
     /\ \/ maximum_timesteps = None
        \/ Fields(read[Len(read)])[1] <= maximum_timesteps[1])
    => Len(RecognizedPositions) > maximum_lines[1]

C12_UnrecognizedLineInvisible ==
    [][C12_StepAsClaimed]_vars /\ []C12_SameTermination

(***************************************************************************)
(* C12, amended.  A line that no grammar matches is counted as a line read *)
(* and changes nothing else: the step that reads it adds one to the count  *)
(* of lines read, which the line limit is compared with, and leaves the    *)
(* TimeStep sequence, the TimeStep objects, the active TimeStep, the four  *)
(* accumulators, the pending list, the execution time and the state of the *)
(* parse as they were.                                                     *)
(***************************************************************************)
C12_Step ==
    UnrecognizedStep =>
        /\ number_of_lines_read' = number_of_lines_read + 1
        /\ UNCHANGED <<maximum_timesteps, maximum_lines, petsc, heap, tss, ts,
                       assembly_time, dirichlet_bc_time, linear_solver_time,
                       phase_field_parameter, component_convergence,
                       execution_time, pc, result, rows>>

C12_UnrecognizedLineOnlyCounted == [][C12_Step]_vars

\* An unrecognized line was read while an assembly duration and a record
\* were pending, and both are still pending.
C12_Witness ==
    /\ Len(read) = 3
    /\ Kind(read[3]) = "unrecognized"
    /\ assembly_time # None
    /\ component_convergence # <<>>
    /\ number_of_lines_read = 3

(***************************************************************************)
(* C13.  When a grammar matches a line and the conversion of one of its    *)
(* fields fails, parse_file ends with an error at that line, and only      *)
(* then: no line is read after it, nothing changes after it, and no        *)
(* Simulation is returned or iterated, whatever was parsed before.         *)
(***************************************************************************)
C13_Step ==
    /\ pc = "raised" => UNCHANGED vars
    /\ read' # read =>
          ((pc' = "raised") <=> Classified[petsc][read'[Len(read')]].raised)
    /\ (pc # "raised" /\ pc' = "raised") =>
          /\ result' = None
          /\ rows' = None
          /\ UNCHANGED <<heap, tss, ts>>

C13_NothingReturned == pc = "raised" => (result = None /\ rows = None)

C13_ConversionErrorIsFatal == [][C13_Step]_vars /\ []C13_NothingReturned

\* The conversion failed on the third line, after a TimeStep had been
\* finalized and an Iteration attached: nothing of it is returned.
C13_Witness ==
    /\ pc = "raised"
    /\ Len(read) = 3
    /\ tss # <<>>
    /\ AllIterations # <<>>
    /\ result = None

\* The position of the line that made the active TimeStep, 0 for the
\* placeholder.
LastStart ==
    IF StartPositions = <<>> THEN 0 ELSE StartPositions[Len(StartPositions)]

\* The execution-duration lines read since the active TimeStep was made.
ExecutionSinceStart ==
    PositionsIn(LastStart, Len(read) + 1, {"execution_time"})

(***************************************************************************)
(* C14.  When the input ends without early termination and no              *)
(* execution-duration line came after the last time-step-start line (after *)
(* the start of the file, when there is none), the active TimeStep is not  *)
(* in the sequence of the returned Simulation, and the rows are those of a *)
(* result in which the active TimeStep holds no Iteration.                 *)
(***************************************************************************)
C14_ActiveTimeStepDropped ==
    (pc = "eof" /\ ExecutionSinceStart = <<>>) =>
        /\ \A k \in 1..Len(result[1].timesteps) : result[1].timesteps[k] # ts
        /\ rows # None =>
              rows[1] = Simulation_iter(result[1],
                                        [heap EXCEPT ![ts].iterations = <<>>])

\* The file ended after a time-step-start line, a convergence line and an
\* iteration-timing line: the TimeStep, its Iteration and the record are not
\* in the result, which was iterated.
C14_Witness ==
    /\ pc = "eof"
    /\ ExecutionSinceStart = <<>>
    /\ ts > 1
    /\ heap[ts].iterations # <<>>
    /\ heap[ts].iterations[1].component_convergence # <<>>
    /\ rows # None

\* The accumulator of a scalar kind.
PendingOf(kind) ==
    CASE kind = "assembly_time" -> assembly_time
      [] kind = "dirichlet_bc_time" -> dirichlet_bc_time
      [] kind = "linear_solver_time" -> linear_solver_time
      [] kind = "phase_field_parameter" -> phase_field_parameter

\* The value of the last line of a scalar kind strictly between lo and hi,
\* None when there is none.
LastScalarBetween(lo, hi, kind) ==
    IF PositionsIn(lo, hi, {kind}) = <<>> THEN None
    ELSE Classified[petsc][read[PositionsIn(lo, hi, {kind})
                                   [Len(PositionsIn(lo, hi, {kind}))]]].r[1]

\* The line just read is a scalar line and went through its handler.
ScalarStep ==
    /\ read' # read
    /\ Kind(read'[Len(read')]) \in ScalarKinds
    /\ pc' # "raised"

(***************************************************************************)
(* C15.  For each scalar kind the n-th Iteration carries the value of the  *)
(* last line of that kind between the (n-1)-th and the n-th                *)
(* iteration-timing line (None without such a line), and the accumulator   *)
(* holds the value of the last line of the kind after the last             *)
(* iteration-timing line.  The step that reads a scalar line sets the      *)
(* accumulator of its kind and leaves the other three accumulators, the    *)
(* pending list, the TimeStep sequence and the TimeStep objects, the       *)
(* active one among them, unchanged.                                       *)
(***************************************************************************)
C15_LastValue ==
    /\ Len(AllIterations) = Len(IterationPositions)
    /\ \A kind \in ScalarKinds :
          /\ \A n \in 1..Len(IterationPositions) :
                ScalarOf(AllIterations[n], kind) =
                    LastScalarBetween(IF n = 1 THEN 0
                                      ELSE IterationPositions[n - 1],
                                      IterationPositions[n], kind)
          /\ PendingOf(kind) =
                LastScalarBetween(IF IterationPositions = <<>> THEN 0
                                  ELSE IterationPositions[Len(IterationPositions)],
                                  Len(read) + 1, kind)

C15_Step ==
    ScalarStep =>
        /\ \A kind \in ScalarKinds :
              PendingOf(kind)' =
                  IF kind = Kind(read'[Len(read')])
                  THEN Fields(read'[Len(read')])[1]
                  ELSE PendingOf(kind)
        /\ UNCHANGED <<component_convergence, heap, tss, ts, execution_time,
                       pc, result, rows>>

C15_LastWriteWins == [][C15_Step]_vars /\ []C15_LastValue

\* Two assembly lines with different durations, then an iteration-timing
\* line: the Iteration carries the second duration.
C15_Witness ==
    /\ Len(read) = 3
    /\ Kind(read[1]) = "assembly_time"
    /\ Kind(read[2]) = "assembly_time"
    /\ Fields(read[1])[1] # Fields(read[2])[1]
    /\ Len(AllIterations) = 1
    /\ AllIterations[1].assembly_time = Fields(read[2])[1]

\* The line just read and what the chain of grammars made of it.
LastKind == Kind(read'[Len(read')])

LastFields == Fields(read'[Len(read')])

(***************************************************************************)
(* C16.  The step that reads a time-step-output line, a per-process-solve  *)
(* line or a time-step-finished line sets output_time, solution_time or    *)
(* cpu_time of the active TimeStep to the duration of the line, whatever   *)
(* step index the line names, and changes nothing else: no other field of  *)
(* that TimeStep, no other TimeStep, not the TimeStep sequence, not which  *)
(* TimeStep is active, no accumulator and not the pending list.            *)
(***************************************************************************)
C16_Step ==
    read' # read =>
        /\ LastKind = "time_step_output" =>
               heap' = [heap EXCEPT ![ts].output_time = LastFields[2]]
        /\ LastKind = "solution_time" =>
               heap' = [heap EXCEPT ![ts].solution_time = LastFields[2]]
        /\ LastKind = "time_step_finished" =>
               heap' = [heap EXCEPT ![ts].cpu_time = LastFields[2]]
        /\ LastKind \in {"time_step_output", "solution_time",
                         "time_step_finished"} =>
               UNCHANGED <<tss, ts, assembly_time, dirichlet_bc_time,
                           linear_solver_time, phase_field_parameter,
                           component_convergence, execution_time, pc, result,
                           rows>>

C16_OnlyOwnFieldSet == [][C16_Step]_vars

\* An output line that names step 1 was read while TimeStep 2 was active
\* and held an Iteration: TimeStep 2 has the duration, keeps its Iteration
\* and is in no sequence.
C16_Witness ==
    /\ Len(read) = 3
    /\ Kind(read[3]) = "time_step_output"
    /\ heap[ts].number # Fields(read[3])[1]
    /\ heap[ts].output_time = Fields(read[3])[2]
    /\ heap[ts].cpu_time = None
    /\ Len(heap[ts].iterations) = 1
    /\ ts > 1
    /\ \A k \in 1..Len(tss) : tss[k] # ts

(***************************************************************************)
(* C17.  No conversion fails after a grammar has matched: of every line    *)
(* read that a grammar matches, each captured text converts to the type of *)
(* its field, so parse_file never ends with a conversion error.            *)
(***************************************************************************)
C17_ConversionNeverFails ==
    /\ \A p \in 1..Len(read) : ~Classified[petsc][read[p]].raised
    /\ pc # "raised"

(***************************************************************************)
(* C18.  Each TimeStep object is at most once in the sequence of the       *)
(* returned Simulation: one that an execution-duration line finalized is   *)
(* not appended again by a later time-step-start line or by a second       *)
(* execution-duration line.                                                *)
(***************************************************************************)
C18_NoTimeStepTwice ==
    Returned =>
        \A a, b \in 1..Len(result[1].timesteps) :
            a # b => result[1].timesteps[a] # result[1].timesteps[b]

\* The number of Iterations of the objects before object k of the heap.
IterationsBefore(k) == Len(AllIterations) - Len(IterationsFrom(k))

\* The position of the iteration-timing line before the n-th one, 0 for
\* the first.
PreviousIteration(n) == IF n = 1 THEN 0 ELSE IterationPositions[n - 1]

(***************************************************************************)
(* C19.  The step that reads a time-step-start line leaves the four        *)
(* scalar accumulators and the pending convergence list as they are, so    *)
(* the first Iteration of a TimeStep that a line created carries the       *)
(* values and records of the lines since the iteration-timing line before  *)
(* it, those before the time-step-start line included.                     *)
(***************************************************************************)
C19_Step ==
    (read' # read /\ LastKind = "time_step_start") =>
        UNCHANGED <<assembly_time, dirichlet_bc_time, linear_solver_time,
                    phase_field_parameter, component_convergence>>

C19_FirstIteration ==
    /\ Len(AllIterations) = Len(IterationPositions)
    /\ \A k \in 2..Len(heap) :
          heap[k].iterations # <<>> =>
              /\ PreviousIteration(IterationsBefore(k) + 1)
                    < StartPositions[k - 1]
              /\ StartPositions[k - 1]
                    < IterationPositions[IterationsBefore(k) + 1]
              /\ heap[k].iterations[1].component_convergence =
                    RecordsBetween(PreviousIteration(IterationsBefore(k) + 1),
                                   IterationPositions[IterationsBefore(k) + 1])
              /\ \A kind \in ScalarKinds :
                    ScalarOf(heap[k].iterations[1], kind) =
                        LastScalarBetween(
                            PreviousIteration(IterationsBefore(k) + 1),
                            IterationPositions[IterationsBefore(k) + 1], kind)

C19_PendingSurvivesTimeStepStart == [][C19_Step]_vars /\ []C19_FirstIteration

\* An assembly line, a time-step-start line, an iteration-timing line: the
\* Iteration of the new TimeStep carries the duration read before the
\* TimeStep began.
C19_Witness ==
    /\ Len(read) = 3
    /\ Kind(read[1]) = "assembly_time"
    /\ Kind(read[2]) = "time_step_start"
    /\ Kind(read[3]) = "iteration"
    /\ Len(heap) = 2
    /\ Len(heap[2].iterations) = 1
    /\ heap[2].iterations[1].assembly_time = Fields(read[1])[1]
    /\ assembly_time = None

ExecutionPositions == PositionsIn(0, Len(read) + 1, {"execution_time"})

\* The positions of the iteration-timing lines read while object k of the
\* heap was the active TimeStep.
IterationLinesOf(k) ==
    PositionsIn(IF k = 1 THEN 0 ELSE StartPositions[k - 1],
                IF k > Len(StartPositions) THEN Len(read) + 1
                ELSE StartPositions[k],
                {"iteration"})

\* The run ended properly: no limit was set, the file was read to its end,
\* and its one execution-duration line is the last line a grammar matches.
EndedProperly ==
    /\ pc = "eof"
    /\ maximum_timesteps = None
    /\ maximum_lines = None
    /\ Len(ExecutionPositions) = 1
    /\ ExecutionPositions[1] = RecognizedPositions[Len(RecognizedPositions)]

(***************************************************************************)
(* C20.  When the run ended properly (no limit, one execution-duration     *)
(* line, no recognized line after it), the Iterations of the TimeSteps of  *)
(* the returned Simulation are as many as the iteration-timing lines of    *)
(* the file, those before the first time-step-start line included, and     *)
(* each returned TimeStep holds the Iterations of the iteration-timing     *)
(* lines read while it was active, in the order of the lines.              *)
(***************************************************************************)
C20_NoIterationLost ==
    EndedProperly =>
        /\ Sum([k \in 1..Len(ReturnedTimeSteps) |->
                   Len(ReturnedTimeSteps[k].iterations)])
              = Len(IterationPositions)
        /\ \A k \in 1..Len(result[1].timesteps) :
              /\ Len(ReturnedTimeSteps[k].iterations)
                    = Len(IterationLinesOf(result[1].timesteps[k]))
              /\ \A j \in 1..Len(ReturnedTimeSteps[k].iterations) :
                    /\ ReturnedTimeSteps[k].iterations[j].number =
                          Fields(read[IterationLinesOf(
                                          result[1].timesteps[k])[j]])[1]
                    /\ ReturnedTimeSteps[k].iterations[j].cpu_time =
                          Fields(read[IterationLinesOf(
                                          result[1].timesteps[k])[j]])[2]

\* A properly ended run of an iteration-timing line, a time-step-start line
\* and the execution-duration line: the Iteration of the line before the
\* first time-step-start line is in the result.
C20_Witness ==
    /\ EndedProperly
    /\ StartPositions # <<>>
    /\ IterationPositions # <<>>
    /\ IterationPositions[1] < StartPositions[1]
    /\ Len(ReturnedTimeSteps) = 2
    /\ Len(ReturnedTimeSteps[1].iterations) = 1

====
